---- MODULE Spec2Model ----
(***************************************************************************)
(* A model of the lifecycle + query subsystem of the no-name backend:      *)
(* UserService (soft delete / restore / hard delete / status / email       *)
(* uniqueness) over the Prisma user table, and the pagination descriptor   *)
(* builders (QueryHelper.getPaginationOptions and the two versions of the  *)
(* Pagination decorator).                                                  *)
(*                                                                         *)
(* Every handler of UserService is an async function; it is cut at its     *)
(* awaits on the database, so that requests served concurrently interleave *)
(* exactly where the code can be interleaved.  Each database statement is  *)
(* one atomic step.                                                        *)
(***************************************************************************)
EXTENDS Integers, Sequences, FiniteSets, TLC

VARIABLES
    users,      \* the "users" table: id -> <<>> (no row) or <<row>>
    nextId,     \* next fresh primary key (ids are generated, never reused)
    now,        \* the clock read by new Date() and by the createdAt default
    pc,         \* per request slot: the await the handler is suspended at
    loc,        \* per request slot: the handler's arguments
    resp,       \* per request slot: what the last handler returned or threw
    pgIn,       \* pagination composer: the raw input under evaluation
    pgOut,      \* pagination composer: the descriptor computed from pgIn
    metaIn,     \* result-metadata builder: the (page, limit, total) given
    metaOut,    \* result-metadata builder: the metadata computed from metaIn
    bucket,     \* the object store's bucket: the set of stored objects
    usedUuids,  \* the values randomUUID() has produced so far
    roles,      \* the "roles" table, by primary key
    rolePermissions, \* the "role_permissions" table, its rows by roleId
    nextRoleId, \* next fresh primary key of the roles table
    http        \* the request HttpClientService is serving

vars == <<users, nextId, now, pc, loc, resp, pgIn, pgOut, metaIn, metaOut,
          bucket, usedUuids, roles, rolePermissions, nextRoleId, http>>
userVars == <<users, nextId, now, pc, loc, resp>>
pageVars == <<pgIn, pgOut>>
metaVars == <<metaIn, metaOut>>
fileVars == <<bucket, usedUuids>>
roleVars == <<roles, rolePermissions, nextRoleId>>

----------------------------------------------------------------------------
(* Bounds of the model *)

MaxIds == 2          \* number of primary keys ever generated
MaxClock == 1        \* the clock runs 0..MaxClock
MaxPage == 4         \* result metadata is built for pages 1..MaxPage
MaxTotal == 30       \* ... and for total counts 0..MaxTotal

MaxRoles == 2        \* number of role primary keys ever generated
MaxUploads == 2
MaxRequestRetries == 2      \* number of uploads ever made

Ids == 1 .. MaxIds
RoleIds == 1 .. MaxRoles
Times == 0 .. MaxClock
Procs == {"r1", "r2"}   \* request slots; sequential runs use only r1

----------------------------------------------------------------------------
(* Values.  An optional value (null / undefined in the code) is <<>> or     *)
(* <<v>>; a string is a sequence of characters, so that "contains" can be   *)
(* computed.                                                                *)

None == <<>>
Some(v) == <<v>>
IsSome(o) == Len(o) = 1
Val(o) == o[1]

Emails == { <<"a", "x">>, <<"B", "x">> }
Names == { <<"A", "b">> }
Passwords == { "pw1", "pw2" }

UserStatus == { "ACTIVE", "INACTIVE", "SUSPENDED", "PENDING" }

Min2(a, b) == IF a < b THEN a ELSE b
Max2(a, b) == IF a > b THEN a ELSE b

(* bcrypt.hash / bcrypt.compare: the hash is a function of the password     *)
(* (the random salt is left out); compare succeeds exactly on the password  *)
(* the hash was made from.                                                  *)
BcryptHash(pw) == <<"bcrypt", pw>>
BcryptCompare(pw, h) == h = BcryptHash(pw)

(* mode: 'insensitive' of Prisma's string filter *)
ToLower(c) ==
    CASE c = "A" -> "a"
      [] c = "B" -> "b"
      [] OTHER -> c

LowerStr(s) == [i \in 1 .. Len(s) |-> ToLower(s[i])]

(* contains: t occurs in s as a substring *)
Contains(s, t) ==
    \E i \in 1 .. (Len(s) - Len(t) + 1) : SubSeq(s, i, i + Len(t) - 1) = t

ContainsInsensitive(s, t) == Contains(LowerStr(s), LowerStr(t))

(* byte order of the characters, for ORDER BY on a text column *)
CharCode(c) ==
    CASE c = "A" -> 65
      [] c = "B" -> 66
      [] c = "a" -> 97
      [] c = "b" -> 98
      [] c = "x" -> 120
      [] c = " " -> 32
      [] c = "-" -> 45
      [] c = "." -> 46
      [] c = "0" -> 48
      [] c = "1" -> 49
      [] c = "2" -> 50
      [] c = "3" -> 51
      [] c = "_" -> 95
      [] c = "f" -> 102
      [] c = "u" -> 117
      [] c = "v" -> 118
      [] c = "w" -> 119
      [] c = "y" -> 121
      [] c = "z" -> 122
      [] OTHER -> 0

RECURSIVE StrLess(_, _)
StrLess(s, t) ==
    IF Len(t) = 0 THEN FALSE
    ELSE IF Len(s) = 0 THEN TRUE
    ELSE IF CharCode(Head(s)) # CharCode(Head(t))
         THEN CharCode(Head(s)) < CharCode(Head(t))
    ELSE StrLess(Tail(s), Tail(t))

----------------------------------------------------------------------------
(* JavaScript numbers as far as the pagination code needs them: undefined,  *)
(* NaN or an integer.                                                       *)

JsUndef == [tag |-> "undef", v |-> 0]
JsNaN == [tag |-> "nan", v |-> 0]
JsNum(n) == [tag |-> "num", v |-> n]

IsNum(x) == x.tag = "num"

(* x || d on numbers: undefined, NaN and 0 are falsy *)
JsOrNum(x, d) == IF x.tag = "num" /\ x.v # 0 THEN x ELSE d

JsSub(a, b) == IF IsNum(a) /\ IsNum(b) THEN JsNum(a.v - b.v) ELSE JsNaN
JsMul(a, b) == IF IsNum(a) /\ IsNum(b) THEN JsNum(a.v * b.v) ELSE JsNaN
JsLess(a, b) == IsNum(a) /\ IsNum(b) /\ a.v < b.v
JsGreater(a, b) == IsNum(a) /\ IsNum(b) /\ a.v > b.v
MathMax(a, b) == IF IsNum(a) /\ IsNum(b) THEN JsNum(Max2(a.v, b.v)) ELSE JsNaN
MathMin(a, b) == IF IsNum(a) /\ IsNum(b) THEN JsNum(Min2(a.v, b.v)) ELSE JsNaN

(* A query-string parameter: absent, the empty string, an integer literal   *)
(* or text that is no number.                                               *)
QAbsent == [tag |-> "absent", v |-> 0]
QEmpty == [tag |-> "empty", v |-> 0]
QJunk == [tag |-> "junk", v |-> 0]
QInt(n) == [tag |-> "int", v |-> n]

(* q || dflt on strings: undefined and '' are falsy, '0' is not *)
JsOrStr(q, dflt) == IF q.tag \in {"absent", "empty"} THEN dflt ELSE q

(* parseInt(s, 10) *)
ParseInt(q) == IF q.tag = "int" THEN JsNum(q.v) ELSE JsNaN

----------------------------------------------------------------------------
(* Query Composer *)

DefaultPage == 1
DefaultLimit == 10
MaxLimit == 100

Descriptor(page, limit, skip) == [page |-> page, limit |-> limit, skip |-> skip]

getPaginationOptions_SkipWholePages(dto) ==
    LET page == JsOrNum(dto.page, JsNum(DefaultPage))
        limit == JsOrNum(dto.limit, JsNum(DefaultLimit))
    IN  Descriptor(page, limit, JsMul(page, limit))

(* QueryHelper.getPaginationOptions: defaults for a falsy page or limit, no *)
(* clamping.                                                                *)
getPaginationOptions(dto) ==
    LET page == JsOrNum(dto.page, JsNum(DefaultPage))
        limit == JsOrNum(dto.limit, JsNum(DefaultLimit))
        skip == JsMul(JsSub(page, JsNum(1)), limit)
    IN  Descriptor(page, limit, skip)

(* Pagination decorator, first version *)
PaginationV1(query) ==
    LET page == ParseInt(JsOrStr(query.page, QInt(DefaultPage)))
        limit == ParseInt(JsOrStr(query.limit, QInt(DefaultLimit)))
        validPage == IF JsLess(page, JsNum(1)) THEN JsNum(1) ELSE page
        validLimit == IF JsLess(limit, JsNum(1)) THEN JsNum(DefaultLimit)
                      ELSE IF JsGreater(limit, JsNum(MaxLimit)) THEN JsNum(MaxLimit)
                      ELSE limit
    IN  Descriptor(validPage, validLimit,
                   JsMul(JsSub(validPage, JsNum(1)), validLimit))

(* mutant of PaginationV2: the upper clamp Math.min(100, ...) is missing *)
PaginationV2_NoUpperClamp(query) ==
    LET page == MathMax(JsNum(1), ParseInt(JsOrStr(query.page, QInt(DefaultPage))))
        limit == MathMax(JsNum(1), ParseInt(JsOrStr(query.limit, QInt(DefaultLimit))))
    IN  Descriptor(page, limit, JsMul(JsSub(page, JsNum(1)), limit))

(* Pagination decorator, second version *)
PaginationV2(query) ==
    LET page == MathMax(JsNum(1), ParseInt(JsOrStr(query.page, QInt(DefaultPage))))
        limit == MathMax(JsNum(1),
                         MathMin(JsNum(MaxLimit),
                                 ParseInt(JsOrStr(query.limit, QInt(DefaultLimit)))))
    IN  Descriptor(page, limit, JsMul(JsSub(page, JsNum(1)), limit))

(* Math.ceil(total / limit) for total >= 0 and limit >= 1 *)
CeilDiv(total, limit) == (total + limit - 1) \div limit

NoMeta ==
    [page |-> 0, limit |-> 0, total |-> 0, totalPages |-> 0,
     hasNextPage |-> FALSE, hasPreviousPage |-> FALSE]

(* mutant of buildMeta: the page count is rounded down *)
buildMeta_FloorPages(page, limit, total) ==
    LET totalPages == total \div limit
    IN  [page |-> page, limit |-> limit, total |-> total,
         totalPages |-> totalPages,
         hasNextPage |-> page < totalPages,
         hasPreviousPage |-> page > 1]

(* QueryHelper.buildMeta *)
buildMeta(page, limit, total) ==
    LET totalPages == CeilDiv(total, limit)
    IN  [page |-> page, limit |-> limit, total |-> total,
         totalPages |-> totalPages,
         hasNextPage |-> page < totalPages,
         hasPreviousPage |-> page > 1]

(* QueryHelper.buildOrderBy: createdAt when no field is given, the field     *)
(* verbatim otherwise; the direction defaults to desc.                       *)
buildOrderBy(sortBy, sortOrder) ==
    [field |-> IF IsSome(sortBy) THEN Val(sortBy) ELSE "createdAt",
     dir |-> IF IsSome(sortOrder) THEN Val(sortOrder) ELSE "desc"]

(* QueryHelper.buildSearchWhere over ['email', 'name'], applied to a row:   *)
(* no term or an empty term gives {} (every row matches).                   *)
buildSearchWhere(searchTerm, row) ==
    IF ~IsSome(searchTerm) \/ Len(Val(searchTerm)) = 0 THEN TRUE
    ELSE \/ ContainsInsensitive(row.email, Val(searchTerm))
         \/ /\ IsSome(row.name)
            /\ ContainsInsensitive(Val(row.name), Val(searchTerm))

----------------------------------------------------------------------------
(* The users table and the Prisma statements UserService issues *)

Row(id, email, name, password, status, deletedAt, createdAt) ==
    [id |-> id, email |-> email, name |-> name, password |-> password,
     status |-> status, deletedAt |-> deletedAt, createdAt |-> createdAt]

(* mutant of excludePassword: the row is returned as it is *)
excludePassword_KeepsPassword(row) == row

(* excludePassword: every field of the row but the password *)
excludePassword(row) ==
    [id |-> row.id, email |-> row.email, name |-> row.name,
     status |-> row.status, deletedAt |-> row.deletedAt,
     createdAt |-> row.createdAt]

Exists(id) == IsSome(users[id])
IsLive(id) == Exists(id) /\ ~IsSome(Val(users[id]).deletedAt)
IsSoftDeleted(id) == Exists(id) /\ IsSome(Val(users[id]).deletedAt)

(* prisma.user.findUnique({ where: { id } }) *)
FindUniqueById(id) == users[id]

(* mutant of FindUniqueByEmail: the lookup skips soft-deleted rows *)
FindUniqueByEmail_LiveOnly(email) ==
    LET hit == {i \in Ids : IsLive(i) /\ Val(users[i]).email = email}
    IN  IF hit = {} THEN None ELSE users[CHOOSE i \in hit : TRUE]

(* prisma.user.findUnique({ where: { email } }) *)
FindUniqueByEmail(email) ==
    LET hit == {i \in Ids : Exists(i) /\ Val(users[i]).email = email}
    IN  IF hit = {} THEN None ELSE users[CHOOSE i \in hit : TRUE]

(* mutant of FindFirstLiveById: the deletedAt: null condition is missing *)
FindFirstLiveById_NoFilter(id) == users[id]

(* prisma.user.findFirst({ where: { id, deletedAt: null } }) *)
FindFirstLiveById(id) == IF IsLive(id) THEN users[id] ELSE None

(* prisma.user.findFirst({ where: { email, deletedAt: null } }) *)
FindFirstLiveByEmail(email) ==
    LET hit == {i \in Ids : IsLive(i) /\ Val(users[i]).email = email}
    IN  IF hit = {} THEN None ELSE users[CHOOSE i \in hit : TRUE]

(* the where clause of findAll: { ...searchWhere, deletedAt: null } *)
FindAllWhere(q) == {i \in Ids : IsLive(i) /\ buildSearchWhere(q, Val(users[i]))}

(* a before b under ORDER BY field dir; rows equal on the key are in no     *)
(* defined order.                                                           *)
KeyLess(a, b, field) ==
    IF field = "email" THEN StrLess(a.email, b.email)
    ELSE a.createdAt < b.createdAt

OrderedBefore(a, b, ord) ==
    IF ord.dir = "asc" THEN ~KeyLess(b, a, ord.field)
    ELSE ~KeyLess(a, b, ord.field)

(* every listing of the rows in `ids` the database may produce for ord *)
Listings(ids, ord) ==
    {s \in [1 .. Cardinality(ids) -> ids] :
        /\ \A i, j \in DOMAIN s : i # j => s[i] # s[j]
        /\ \A i, j \in DOMAIN s :
               i < j => OrderedBefore(Val(users[s[i]]), Val(users[s[j]]), ord)}

(* OFFSET skip LIMIT take of a listing *)
Slice(s, skip, take) ==
    IF skip >= Len(s) THEN <<>>
    ELSE SubSeq(s, skip + 1, Min2(skip + take, Len(s)))

(* the unique index on users.email, as seen by a write that leaves the row  *)
(* `self` with `email`                                                      *)
EmailTaken(email, self) ==
    \E i \in Ids : i # self /\ Exists(i) /\ Val(users[i]).email = email

----------------------------------------------------------------------------
(* Requests and responses *)

NoArgs ==
    [op |-> "none", id |-> 0, email |-> None, name |-> None, password |-> None,
     status |-> None, page |-> JsUndef, limit |-> JsUndef, q |-> None,
     sortBy |-> None, sortOrder |-> None, skip |-> 0, take |-> 0,
     rows |-> <<>>,
     identifier |-> <<>>, file |-> None, match |-> <<>>,
     permissions |-> None, fault |-> FALSE]

(* a handler's outcome: "ok" with the returned entities (none for void and   *)
(* for a null result), or the exception thrown to the controller             *)
Response(kind, data, meta) == [kind |-> kind, data |-> data, meta |-> meta]
Pending == Response("pending", <<>>, NoMeta)
Ok(data) == Response("ok", data, NoMeta)
NotFoundException == Response("NotFound", <<>>, NoMeta)
ConflictException == Response("Conflict", <<>>, NoMeta)
InternalServerErrorException == Response("InternalServerError", <<>>, NoMeta)

(* an error of the backend's client library (minio's S3Error, a Prisma      *)
(* client error) thrown on to the caller as it is                           *)
BackendError == Response("BackendError", <<>>, NoMeta)

Opt(S) == {None} \cup {Some(x) : x \in S}

Idle(p) == pc[p] = "idle"

(* the handler of slot p returns or throws r *)
Finish(p, r) ==
    /\ pc' = [pc EXCEPT ![p] = "idle"]
    /\ resp' = [resp EXCEPT ![p] = r]

(* the handler of slot p suspends at its next database statement *)
Await(p, label) ==
    /\ pc' = [pc EXCEPT ![p] = label]
    /\ resp' = [resp EXCEPT ![p] = Pending]

Call(p, args) == loc' = [loc EXCEPT ![p] = args]

(* rows written by creates that passed their uniqueness check and have not  *)
(* inserted yet: the model generates at most MaxIds primary keys            *)
PendingInserts == Cardinality({p \in Procs : pc[p] = "create_insert"})

----------------------------------------------------------------------------
(* UserService *)

(* create, up to the insert: findUnique by email, Conflict if it exists *)
Create(p, email, name, password) ==
    /\ Idle(p)
    /\ nextId + PendingInserts <= MaxIds
    /\ Call(p, [NoArgs EXCEPT !.op = "create", !.email = Some(email),
                              !.name = name, !.password = Some(password)])
    /\ IF IsSome(FindUniqueByEmail(email))
       THEN Finish(p, ConflictException)
       ELSE Await(p, "create_insert")
    /\ UNCHANGED <<users, nextId, now, pageVars, metaVars, fileVars, roleVars, http>>

(* create: prisma.user.create; the unique index on email rejects a          *)
(* duplicate, which the catch block turns into InternalServerError          *)
CreateInsert(p) ==
    /\ pc[p] = "create_insert"
    /\ LET a == loc[p]
           row == Row(nextId, Val(a.email), a.name, BcryptHash(Val(a.password)),
                      "ACTIVE", None, now)
       IN  IF EmailTaken(Val(a.email), nextId)
           THEN /\ Finish(p, InternalServerErrorException)
                /\ UNCHANGED <<users, nextId>>
           ELSE /\ users' = [users EXCEPT ![nextId] = Some(row)]
                /\ nextId' = nextId + 1
                /\ Finish(p, Ok(<<excludePassword(row)>>))
    /\ UNCHANGED <<now, loc, pageVars, metaVars, fileVars, roleVars, http>>

(* findAll: the findMany of Promise.all; an orderBy on a column the table   *)
(* does not have is rejected by the client and becomes InternalServerError  *)
FindAll(p, page, limit, q, sortBy, sortOrder) ==
    /\ Idle(p)
    /\ LET opts == getPaginationOptions([page |-> page, limit |-> limit])
           ord == buildOrderBy(sortBy, sortOrder)
           args == [NoArgs EXCEPT !.op = "findAll", !.page = page,
                                  !.limit = limit, !.q = q, !.sortBy = sortBy,
                                  !.sortOrder = sortOrder]
       IN  IF ord.field \notin {"createdAt", "email"}
           THEN /\ Call(p, args)
                /\ Finish(p, InternalServerErrorException)
           ELSE \E s \in Listings(FindAllWhere(q), ord) :
                  /\ Call(p, [args EXCEPT !.skip = opts.skip.v,
                                          !.take = opts.limit.v, !.rows =
                        [i \in DOMAIN Slice(s, opts.skip.v, opts.limit.v) |->
                            excludePassword(Val(users[
                                Slice(s, opts.skip.v, opts.limit.v)[i]]))]])
                  /\ Await(p, "findAll_count")
    /\ UNCHANGED <<users, nextId, now, pageVars, metaVars, fileVars, roleVars, http>>

(* findAll: the count of Promise.all, then the response *)
FindAllCount(p) ==
    /\ pc[p] = "findAll_count"
    /\ LET a == loc[p]
           opts == getPaginationOptions([page |-> a.page, limit |-> a.limit])
           total == Cardinality(FindAllWhere(a.q))
       IN  Finish(p, Response("ok", a.rows,
                              buildMeta(opts.page.v, opts.limit.v, total)))
    /\ UNCHANGED <<users, nextId, now, loc, pageVars, metaVars, fileVars, roleVars, http>>

(* findOne *)
FindOne(p, id) ==
    /\ Idle(p)
    /\ Call(p, [NoArgs EXCEPT !.op = "findOne", !.id = id])
    /\ LET user == FindFirstLiveById(id)
       IN  IF ~IsSome(user) THEN Finish(p, NotFoundException)
           ELSE Finish(p, Ok(<<excludePassword(Val(user))>>))
    /\ UNCHANGED <<users, nextId, now, pageVars, metaVars, fileVars, roleVars, http>>

(* findByEmail: null when no live row has the email *)
FindByEmail(p, email) ==
    /\ Idle(p)
    /\ Call(p, [NoArgs EXCEPT !.op = "findByEmail", !.email = Some(email)])
    /\ LET user == FindFirstLiveByEmail(email)
       IN  IF ~IsSome(user) THEN Finish(p, Ok(<<>>))
           ELSE Finish(p, Ok(<<excludePassword(Val(user))>>))
    /\ UNCHANGED <<users, nextId, now, pageVars, metaVars, fileVars, roleVars, http>>

(* mutant of Update: the existence check is a findUnique by id, which also  *)
(* finds soft-deleted rows                                                 *)
Update_FindsDeleted(p, id, email, name, password) ==
    /\ Idle(p)
    /\ Call(p, [NoArgs EXCEPT !.op = "update", !.id = id, !.email = email,
                              !.name = name, !.password = password])
    /\ IF ~IsSome(FindUniqueById(id)) THEN Finish(p, NotFoundException)
       ELSE IF IsSome(email) THEN Await(p, "update_check")
       ELSE Await(p, "update_write")
    /\ UNCHANGED <<users, nextId, now, pageVars, metaVars, fileVars, roleVars, http>>

(* update, its findOne *)
Update(p, id, email, name, password) ==
    /\ Idle(p)
    /\ Call(p, [NoArgs EXCEPT !.op = "update", !.id = id, !.email = email,
                              !.name = name, !.password = password])
    /\ IF ~IsSome(FindFirstLiveById(id)) THEN Finish(p, NotFoundException)
       ELSE IF IsSome(email) THEN Await(p, "update_check")
       ELSE Await(p, "update_write")
    /\ UNCHANGED <<users, nextId, now, pageVars, metaVars, fileVars, roleVars, http>>

(* update, the uniqueness lookup made when the dto carries an email *)
UpdateCheck(p) ==
    /\ pc[p] = "update_check"
    /\ LET existingUser == FindUniqueByEmail(Val(loc[p].email))
       IN  IF IsSome(existingUser) /\ Val(existingUser).id # loc[p].id
           THEN Finish(p, ConflictException)
           ELSE Await(p, "update_write")
    /\ UNCHANGED <<users, nextId, now, loc, pageVars, metaVars, fileVars, roleVars, http>>

(* update, prisma.user.update({ where: { id }, data }): fields left         *)
(* undefined are not written; a missing row or a duplicate email is         *)
(* rejected by the database and becomes InternalServerError                 *)
UpdateWrite(p) ==
    /\ pc[p] = "update_write"
    /\ LET a == loc[p]
           old == Val(users[a.id])
           row == [old EXCEPT
                     !.email = IF IsSome(a.email) THEN Val(a.email) ELSE @,
                     !.name = IF IsSome(a.name) THEN a.name ELSE @,
                     !.password = IF IsSome(a.password)
                                  THEN BcryptHash(Val(a.password)) ELSE @]
       IN  IF ~Exists(a.id) \/ (IsSome(a.email) /\ EmailTaken(Val(a.email), a.id))
           THEN /\ Finish(p, InternalServerErrorException)
                /\ UNCHANGED users
           ELSE /\ users' = [users EXCEPT ![a.id] = Some(row)]
                /\ Finish(p, Ok(<<excludePassword(row)>>))
    /\ UNCHANGED <<nextId, now, loc, pageVars, metaVars, fileVars, roleVars, http>>

(* the write of remove, restore and updateStatus:                           *)
(* prisma.user.update({ where: { id }, data: { field: value } })            *)
WriteField(p, row) ==
    IF ~Exists(loc[p].id)
    THEN /\ Finish(p, InternalServerErrorException)
         /\ UNCHANGED users
    ELSE /\ users' = [users EXCEPT ![loc[p].id] = Some(row)]
         /\ Finish(p, Ok(IF loc[p].op = "remove" THEN <<>>
                         ELSE <<excludePassword(row)>>))

(* mutant of Remove: the existence check also finds soft-deleted rows *)
Remove_FindsDeleted(p, id) ==
    /\ Idle(p)
    /\ Call(p, [NoArgs EXCEPT !.op = "remove", !.id = id])
    /\ IF ~IsSome(FindUniqueById(id)) THEN Finish(p, NotFoundException)
       ELSE Await(p, "remove_write")
    /\ UNCHANGED <<users, nextId, now, pageVars, metaVars, fileVars, roleVars, http>>

(* remove (soft delete), its findOne *)
Remove(p, id) ==
    /\ Idle(p)
    /\ Call(p, [NoArgs EXCEPT !.op = "remove", !.id = id])
    /\ IF ~IsSome(FindFirstLiveById(id)) THEN Finish(p, NotFoundException)
       ELSE Await(p, "remove_write")
    /\ UNCHANGED <<users, nextId, now, pageVars, metaVars, fileVars, roleVars, http>>

(* remove, the update that sets deletedAt to new Date() *)
RemoveWrite(p) ==
    /\ pc[p] = "remove_write"
    /\ WriteField(p, [Val(users[loc[p].id]) EXCEPT !.deletedAt = Some(now)])
    /\ UNCHANGED <<nextId, now, loc, pageVars, metaVars, fileVars, roleVars, http>>

(* mutant of Restore: the "User is not deleted" check is missing *)
Restore_NoConflictCheck(p, id) ==
    /\ Idle(p)
    /\ Call(p, [NoArgs EXCEPT !.op = "restore", !.id = id])
    /\ IF ~IsSome(FindUniqueById(id)) THEN Finish(p, NotFoundException)
       ELSE Await(p, "restore_write")
    /\ UNCHANGED <<users, nextId, now, pageVars, metaVars, fileVars, roleVars, http>>

(* restore, its findUnique and the two precondition checks *)
Restore(p, id) ==
    /\ Idle(p)
    /\ Call(p, [NoArgs EXCEPT !.op = "restore", !.id = id])
    /\ LET user == FindUniqueById(id)
       IN  IF ~IsSome(user) THEN Finish(p, NotFoundException)
           ELSE IF ~IsSome(Val(user).deletedAt) THEN Finish(p, ConflictException)
           ELSE Await(p, "restore_write")
    /\ UNCHANGED <<users, nextId, now, pageVars, metaVars, fileVars, roleVars, http>>

(* mutant of RestoreWrite: the update also resets status to its default *)
RestoreWrite_ResetsStatus(p) ==
    /\ pc[p] = "restore_write"
    /\ WriteField(p, [Val(users[loc[p].id]) EXCEPT !.deletedAt = None,
                                                   !.status = "ACTIVE"])
    /\ UNCHANGED <<nextId, now, loc, pageVars, metaVars, fileVars, roleVars, http>>

(* restore, the update that clears deletedAt *)
RestoreWrite(p) ==
    /\ pc[p] = "restore_write"
    /\ WriteField(p, [Val(users[loc[p].id]) EXCEPT !.deletedAt = None])
    /\ UNCHANGED <<nextId, now, loc, pageVars, metaVars, fileVars, roleVars, http>>

(* forceDelete, its findUnique *)
ForceDelete(p, id) ==
    /\ Idle(p)
    /\ Call(p, [NoArgs EXCEPT !.op = "forceDelete", !.id = id])
    /\ IF ~IsSome(FindUniqueById(id)) THEN Finish(p, NotFoundException)
       ELSE Await(p, "forceDelete_delete")
    /\ UNCHANGED <<users, nextId, now, pageVars, metaVars, fileVars, roleVars, http>>

(* mutant of ForceDeleteDelete: the row is marked deleted, not removed *)
ForceDeleteDelete_SoftDeletes(p) ==
    /\ pc[p] = "forceDelete_delete"
    /\ IF ~Exists(loc[p].id)
       THEN /\ Finish(p, InternalServerErrorException)
            /\ UNCHANGED users
       ELSE /\ users' = [users EXCEPT ![loc[p].id] =
                    Some([Val(@) EXCEPT !.deletedAt = Some(now)])]
            /\ Finish(p, Ok(<<>>))
    /\ UNCHANGED <<nextId, now, loc, pageVars, metaVars, fileVars, roleVars, http>>

(* forceDelete, prisma.user.delete({ where: { id } }) *)
ForceDeleteDelete(p) ==
    /\ pc[p] = "forceDelete_delete"
    /\ IF ~Exists(loc[p].id)
       THEN /\ Finish(p, InternalServerErrorException)
            /\ UNCHANGED users
       ELSE /\ users' = [users EXCEPT ![loc[p].id] = None]
            /\ Finish(p, Ok(<<>>))
    /\ UNCHANGED <<nextId, now, loc, pageVars, metaVars, fileVars, roleVars, http>>

(* mutant of UpdateStatus: a suspended user may only be made active again *)
UpdateStatus_Restricted(p, id, status) ==
    /\ Idle(p)
    /\ Call(p, [NoArgs EXCEPT !.op = "updateStatus", !.id = id,
                              !.status = Some(status)])
    /\ IF ~IsSome(FindFirstLiveById(id)) THEN Finish(p, NotFoundException)
       ELSE IF Val(users[id]).status = "SUSPENDED" /\ status # "ACTIVE"
       THEN Finish(p, ConflictException)
       ELSE Await(p, "updateStatus_write")
    /\ UNCHANGED <<users, nextId, now, pageVars, metaVars, fileVars, roleVars, http>>

(* updateStatus, its findOne *)
UpdateStatus(p, id, status) ==
    /\ Idle(p)
    /\ Call(p, [NoArgs EXCEPT !.op = "updateStatus", !.id = id,
                              !.status = Some(status)])
    /\ IF ~IsSome(FindFirstLiveById(id)) THEN Finish(p, NotFoundException)
       ELSE Await(p, "updateStatus_write")
    /\ UNCHANGED <<users, nextId, now, pageVars, metaVars, fileVars, roleVars, http>>

(* updateStatus, the update that overwrites status *)
UpdateStatusWrite(p) ==
    /\ pc[p] = "updateStatus_write"
    /\ WriteField(p, [Val(users[loc[p].id]) EXCEPT !.status = Val(loc[p].status)])
    /\ UNCHANGED <<nextId, now, loc, pageVars, metaVars, fileVars, roleVars, http>>

(* validateCredentials: findUnique by email (no deletedAt condition), then  *)
(* bcrypt.compare; null for no row and for a wrong password, and null from  *)
(* the catch block when the lookup fails                                    *)
ValidateCredentials(p, email, password, fault) ==
    /\ Idle(p)
    /\ Call(p, [NoArgs EXCEPT !.op = "validateCredentials",
                              !.email = Some(email),
                              !.password = Some(password), !.fault = fault])
    /\ LET user == FindUniqueByEmail(email)
       IN  IF fault THEN Finish(p, Ok(<<>>))
           ELSE IF ~IsSome(user) THEN Finish(p, Ok(<<>>))
           ELSE IF ~BcryptCompare(password, Val(user).password)
           THEN Finish(p, Ok(<<>>))
           ELSE Finish(p, Ok(<<excludePassword(Val(user))>>))
    /\ UNCHANGED <<users, nextId, now, pageVars, metaVars, fileVars, roleVars, http>>

(* the operations of UserService whose catch block throws                   *)
(* InternalServerErrorException for anything but NotFound and Conflict      *)
GuardedOps ==
    {"create", "findAll", "findOne", "findByEmail", "update", "remove",
     "restore", "forceDelete", "updateStatus"}

(* the first database statement of such an operation fails *)
FailedCall(p, op) ==
    /\ Idle(p)
    /\ Call(p, [NoArgs EXCEPT !.op = op, !.fault = TRUE])
    /\ Finish(p, InternalServerErrorException)
    /\ UNCHANGED <<users, nextId, now, pageVars, metaVars, fileVars, roleVars, http>>

(* the database statement a handler of UserService is suspended at fails *)
DatabaseFailure(p) ==
    /\ pc[p] \in {"create_insert", "findAll_count", "update_check",
                  "update_write", "remove_write", "restore_write",
                  "forceDelete_delete", "updateStatus_write"}
    /\ loc' = [loc EXCEPT ![p].fault = TRUE]
    /\ Finish(p, InternalServerErrorException)
    /\ UNCHANGED <<users, nextId, now, pageVars, metaVars, fileVars, roleVars, http>>

----------------------------------------------------------------------------
(* The object store (MinIO) and FilesService / FilesController *)

(* Date.now() as the digits of the object name, randomUUID() as one         *)
(* character: two calls of randomUUID() never give the same value           *)
TimestampDigits == <<"0", "1", "2", "3">>
UuidAlphabet == <<"u", "v", "w", "y">>
Uuids == {UuidAlphabet[i] : i \in 1 .. Min2(MaxUploads, Len(UuidAlphabet))}

DateNow == TimestampDigits[Min2(now + 1, Len(TimestampDigits))]

(* the characters of the model that /[^a-zA-Z0-9.-]/ does not match *)
SafeChars ==
    {"A", "B", "a", "b", "f", "u", "v", "w", "x", "y", "z",
     "0", "1", "2", "3", ".", "-"}

Sanitize_DotsToo(originalName) ==
    [i \in 1 .. Len(originalName) |->
        IF originalName[i] \in SafeChars \ {"."} THEN originalName[i] ELSE "_"]

(* originalName.replace(/[^a-zA-Z0-9.-]/g, '_') *)
Sanitize(originalName) ==
    [i \in 1 .. Len(originalName) |->
        IF originalName[i] \in SafeChars THEN originalName[i] ELSE "_"]

(* mutant of generateObjectName: the same UUID goes into every name *)
generateObjectName_FixedUuid(originalName, timestamp, uuid) ==
    <<timestamp, "-", "u", "-">> \o Sanitize(originalName)

(* generateObjectName: `${timestamp}-${uuid}-${sanitizedName}` *)
generateObjectName(originalName, timestamp, uuid) ==
    <<timestamp, "-", uuid, "-">> \o Sanitize(originalName)

(* an uploaded file (Express.Multer.File) and a stored object *)
MulterFile(originalname, buffer, mimetype) ==
    [originalname |-> originalname, buffer |-> buffer, mimetype |-> mimetype]

StoredObject(name, etag, size, contentType) ==
    [name |-> name, etag |-> etag, size |-> size, contentType |-> contentType]

(* the etag is the hash of the content, the size its length *)
Etag(buffer) == <<"md5", buffer>>
Size(buffer) == Len(buffer)

UploadResponse(objectName, etag, size, mimetype) ==
    [objectName |-> objectName, etag |-> etag, size |-> size,
     mimetype |-> mimetype, url |-> <<"/">> \o objectName]

ObjectNames == {o.name : o \in bucket}

(* statObject: the object of that name, if there is one *)
StatObject(name) ==
    IF name \in ObjectNames THEN Some(CHOOSE o \in bucket : o.name = name)
    ELSE None

(* putObject: a put under an existing name replaces that object *)
PutObject(obj) == {o \in bucket : o.name # obj.name} \cup {obj}

(* removeObject: removing a name that is not there succeeds *)
RemoveObject(name) == {o \in bucket : o.name # name}

(* listObjectsV2(bucket, '', true): the objects in the byte order of their  *)
(* names                                                                    *)
RECURSIVE ListObjectsV2(_)
ListObjectsV2(objs) ==
    IF objs = {} THEN <<>>
    ELSE LET first == CHOOSE o \in objs :
                         \A r \in objs : r = o \/ StrLess(o.name, r.name)
         IN  <<first>> \o ListObjectsV2(objs \ {first})

(* mutant of FirstMatch: the last entry of the listing that contains id *)
FirstMatch_Last(listing, id) ==
    LET hits == {i \in DOMAIN listing : Contains(listing[i].name, id)}
    IN  IF hits = {} THEN None
        ELSE Some(listing[CHOOSE i \in hits : \A j \in hits : j <= i])

(* the scan of getFileById: the first entry whose name includes id *)
FirstMatch(listing, id) ==
    LET hits == {i \in DOMAIN listing : Contains(listing[i].name, id)}
    IN  IF hits = {} THEN None
        ELSE Some(listing[CHOOSE i \in hits : \A j \in hits : i <= j])

(* a handler that hit a failure of the store remembers it *)
CallFile(p, op, identifier, file, fault) ==
    Call(p, [NoArgs EXCEPT !.op = op, !.identifier = identifier,
                           !.file = file, !.fault = fault])

Hit(p, fault) == loc' = [loc EXCEPT ![p].fault = @ \/ fault]

(* FilesController.upload -> FilesService.uploadFile: one putObject *)
UploadFile(p, file, fault) ==
    /\ Idle(p)
    /\ Cardinality(usedUuids) < MaxUploads
    /\ \E uuid \in Uuids \ usedUuids :
          LET objectName == generateObjectName(file.originalname, DateNow, uuid)
              obj == StoredObject(objectName, Etag(file.buffer),
                                  Size(file.buffer), file.mimetype)
          IN  /\ usedUuids' = usedUuids \cup {uuid}
              /\ CallFile(p, "uploadFile", <<>>, Some(file), fault)
              /\ IF fault
                 THEN /\ Finish(p, InternalServerErrorException)
                      /\ UNCHANGED bucket
                 ELSE /\ bucket' = PutObject(obj)
                      /\ Finish(p, Ok(<<UploadResponse(objectName, obj.etag,
                                          Size(file.buffer), file.mimetype)>>))
    /\ UNCHANGED <<users, nextId, now, pageVars, metaVars, roleVars, http>>

(* mutant of FileExists: the exact-name check always answers false, so the  *)
(* listing scan resolves every identifier                                   *)
FileExists_NeverExact(p, op, identifier, fault) ==
    /\ Idle(p)
    /\ CallFile(p, op, identifier, None, fault)
    /\ IF fault THEN Finish(p, BackendError)
       ELSE Await(p, "getFileById_list")
    /\ UNCHANGED <<users, nextId, now, pageVars, metaVars, fileVars, roleVars, http>>

(* getFile / deleteFile of the controller, up to the answer of fileExists:  *)
(* statObject; 'NotFound' is false, any other error is thrown on as it is   *)
FileExists(p, op, identifier, fault) ==
    /\ Idle(p)
    /\ CallFile(p, op, identifier, None, fault)
    /\ IF fault THEN Finish(p, BackendError)
       ELSE IF IsSome(StatObject(identifier))
       THEN Await(p, IF op = "getFile" THEN "getFile_metadata"
                     ELSE "deleteFile_remove")
       ELSE Await(p, "getFileById_list")
    /\ UNCHANGED <<users, nextId, now, pageVars, metaVars, fileVars, roleVars, http>>

(* GET /files/:identifier *)
GetFile(p, identifier, fault) == FileExists(p, "getFile", identifier, fault)

(* DELETE /files/:identifier *)
DeleteFile(p, identifier, fault) == FileExists(p, "deleteFile", identifier, fault)

(* getFile, exact name: getFileMetadata (statObject) and the response *)
GetFileMetadata(p, fault) ==
    /\ pc[p] = "getFile_metadata"
    /\ Hit(p, fault)
    /\ LET metadata == StatObject(loc[p].identifier)
       IN  IF fault THEN Finish(p, InternalServerErrorException)
           ELSE IF ~IsSome(metadata) THEN Finish(p, NotFoundException)
           ELSE Finish(p, Ok(<<UploadResponse(loc[p].identifier,
                                  Val(metadata).etag, Val(metadata).size,
                                  Val(metadata).contentType)>>))
    /\ UNCHANGED <<users, nextId, now, pageVars, metaVars, fileVars, roleVars, http>>

(* mutant of GetFileByIdList: a failed listing is answered like an empty one *)
GetFileByIdList_FailureIsNull(p, fault) ==
    /\ pc[p] = "getFileById_list"
    /\ LET file == FirstMatch(ListObjectsV2(bucket), loc[p].identifier)
       IN  IF fault \/ ~IsSome(file)
           THEN /\ Hit(p, fault)
                /\ Finish(p, NotFoundException)
           ELSE /\ loc' = [loc EXCEPT ![p].match = Val(file).name]
                /\ Await(p, "getFileById_stat")
    /\ UNCHANGED <<users, nextId, now, pageVars, metaVars, fileVars, roleVars, http>>

(* getFileById, the listing scan: no match is null, which the controller    *)
(* turns into NotFound                                                      *)
GetFileByIdList(p, fault) ==
    /\ pc[p] = "getFileById_list"
    /\ LET file == FirstMatch(ListObjectsV2(bucket), loc[p].identifier)
       IN  IF fault
           THEN /\ Hit(p, fault)
                /\ Finish(p, InternalServerErrorException)
           ELSE IF ~IsSome(file)
           THEN /\ Hit(p, fault)
                /\ Finish(p, NotFoundException)
           ELSE /\ loc' = [loc EXCEPT ![p].match = Val(file).name]
                /\ Await(p, "getFileById_stat")
    /\ UNCHANGED <<users, nextId, now, pageVars, metaVars, fileVars, roleVars, http>>

(* getFileById, statObject of the match: any error, a vanished object       *)
(* included, becomes InternalServerError; getFile returns the file,         *)
(* deleteFile goes on to remove it                                          *)
GetFileByIdStat(p, fault) ==
    /\ pc[p] = "getFileById_stat"
    /\ Hit(p, fault)
    /\ LET stat == StatObject(loc[p].match)
       IN  IF fault \/ ~IsSome(stat) THEN Finish(p, InternalServerErrorException)
           ELSE IF loc[p].op = "getFile"
           THEN Finish(p, Ok(<<UploadResponse(loc[p].match, Val(stat).etag,
                                   Val(stat).size, Val(stat).contentType)>>))
           ELSE Await(p, "deleteFile_remove")
    /\ UNCHANGED <<users, nextId, now, pageVars, metaVars, fileVars, roleVars, http>>

(* deleteFile of the service: removeObject of the exact name or the match *)
DeleteFileRemove_EveryMatch(p, fault) ==
    /\ pc[p] = "deleteFile_remove"
    /\ Hit(p, fault)
    /\ IF fault
       THEN /\ Finish(p, InternalServerErrorException)
            /\ UNCHANGED bucket
       ELSE /\ bucket' = {o \in bucket : ~Contains(o.name, loc[p].identifier)}
            /\ Finish(p, Ok(<<>>))
    /\ UNCHANGED <<users, nextId, now, usedUuids, pageVars, metaVars, roleVars, http>>

DeleteFileRemove(p, fault) ==
    /\ pc[p] = "deleteFile_remove"
    /\ Hit(p, fault)
    /\ LET objectName == IF loc[p].match # <<>> THEN loc[p].match
                         ELSE loc[p].identifier
       IN  IF fault
           THEN /\ Finish(p, InternalServerErrorException)
                /\ UNCHANGED bucket
           ELSE /\ bucket' = RemoveObject(objectName)
                /\ Finish(p, Ok(<<>>))
    /\ UNCHANGED <<users, nextId, now, usedUuids, pageVars, metaVars, roleVars, http>>

----------------------------------------------------------------------------
(* The roles and role_permissions tables and RoleService.  Each handler is  *)
(* one Prisma statement; a statement with nested writes runs in one         *)
(* transaction, so it takes effect as a whole or not at all.  RoleService   *)
(* catches nothing: an error of the Prisma client goes to the caller.       *)

Resource == {"USER", "PERMISSION"}
Action == {"CREATE", "READ", "UPDATE", "DELETE"}

PermissionDto(resource, action) == [resource |-> resource, action |-> action]
RolePermission(resource, action) == [resource |-> resource, action |-> action]
RoleRow(id, name) == [id |-> id, name |-> name]
(* a role as read with include: { permissions: true } *)
Role(id, name, permissions) ==
    [id |-> id, name |-> name, permissions |-> permissions]
Include(row) == Role(row.id, row.name, rolePermissions[row.id])

(* dto.permissions.flatMap((p) => p.action.map((action) => ({ resource:     *)
(* p.resource, action })))                                                  *)
RECURSIVE FlatMap(_)
FlatMap(permissions) ==
    IF permissions = <<>> THEN <<>>
    ELSE LET p == Head(permissions)
         IN  [i \in 1 .. Len(p.action) |-> RolePermission(p.resource, p.action[i])]
                 \o FlatMap(Tail(permissions))

ViolatesGrantIndex_NoIndex(rows) == FALSE

(* the unique index role_permissions(roleId, resource, action) rejects the  *)
(* rows of one role when two of them are the same pair                      *)
ViolatesGrantIndex(rows) ==
    \E i, j \in DOMAIN rows : i # j /\ rows[i] = rows[j]

(* the unique index roles(name), as seen by a write that leaves `self`      *)
(* with `name`                                                              *)
RoleNameTaken(name, self) ==
    \E i \in RoleIds : i # self /\ IsSome(roles[i]) /\ Val(roles[i]).name = name

CallRole(p, op, id, name, permissions, fault) ==
    Call(p, [NoArgs EXCEPT !.op = op, !.id = id, !.name = name,
                           !.permissions = permissions, !.fault = fault])

RoleDelete_NoCascade(p, id, fault) ==
    /\ Idle(p)
    /\ CallRole(p, "role.delete", id, None, None, fault)
    /\ IF fault \/ ~IsSome(roles[id])
       THEN /\ Finish(p, BackendError)
            /\ UNCHANGED roleVars
       ELSE /\ roles' = [roles EXCEPT ![id] = None]
            /\ UNCHANGED <<rolePermissions, nextRoleId>>
            /\ Finish(p, Ok(<<Include(Val(roles[id]))>>))
    /\ UNCHANGED <<users, nextId, now, pageVars, metaVars, fileVars, http>>

RoleUpdate_AlwaysReplaces(p, id, name, permissions, fault) ==
    /\ Idle(p)
    /\ CallRole(p, "role.update", id, name, permissions, fault)
    /\ IF fault \/ ~IsSome(roles[id])
       THEN /\ Finish(p, BackendError)
            /\ UNCHANGED roleVars
       ELSE LET old == Val(roles[id])
                rows == IF IsSome(permissions) THEN FlatMap(Val(permissions))
                        ELSE <<>>
                row == RoleRow(id, IF IsSome(name) THEN Val(name) ELSE old.name)
            IN  IF \/ IsSome(name) /\ RoleNameTaken(Val(name), id)
                   \/ ViolatesGrantIndex(rows)
                THEN /\ Finish(p, BackendError)
                     /\ UNCHANGED roleVars
                ELSE /\ roles' = [roles EXCEPT ![id] = Some(row)]
                     /\ rolePermissions' = [rolePermissions EXCEPT ![id] = rows]
                     /\ UNCHANGED nextRoleId
                     /\ Finish(p, Ok(<<Role(id, row.name, rows)>>))
    /\ UNCHANGED <<users, nextId, now, pageVars, metaVars, fileVars, http>>

(* RoleService.create: absent or empty permissions create no rows *)
RoleCreate(p, name, permissions, fault) ==
    /\ Idle(p)
    /\ nextRoleId <= MaxRoles
    /\ CallRole(p, "role.create", 0, Some(name), permissions, fault)
    /\ LET rows == IF IsSome(permissions) /\ Len(Val(permissions)) # 0
                   THEN FlatMap(Val(permissions)) ELSE <<>>
       IN  IF fault \/ RoleNameTaken(name, nextRoleId) \/ ViolatesGrantIndex(rows)
           THEN /\ Finish(p, BackendError)
                /\ UNCHANGED roleVars
           ELSE /\ roles' = [roles EXCEPT ![nextRoleId] = Some(RoleRow(nextRoleId, name))]
                /\ rolePermissions' = [rolePermissions EXCEPT ![nextRoleId] = rows]
                /\ nextRoleId' = nextRoleId + 1
                /\ Finish(p, Ok(<<Role(nextRoleId, name, rows)>>))
    /\ UNCHANGED <<users, nextId, now, pageVars, metaVars, fileVars, http>>

(* RoleService.update: a permissions array, empty or not, replaces the      *)
(* role's rows (deleteMany: {} then create); no array leaves them           *)
RoleUpdate(p, id, name, permissions, fault) ==
    /\ Idle(p)
    /\ CallRole(p, "role.update", id, name, permissions, fault)
    /\ IF fault \/ ~IsSome(roles[id])
       THEN /\ Finish(p, BackendError)
            /\ UNCHANGED roleVars
       ELSE LET old == Val(roles[id])
                rows == IF IsSome(permissions) THEN FlatMap(Val(permissions))
                        ELSE rolePermissions[id]
                row == RoleRow(id, IF IsSome(name) THEN Val(name) ELSE old.name)
            IN  IF \/ IsSome(name) /\ RoleNameTaken(Val(name), id)
                   \/ ViolatesGrantIndex(rows)
                THEN /\ Finish(p, BackendError)
                     /\ UNCHANGED roleVars
                ELSE /\ roles' = [roles EXCEPT ![id] = Some(row)]
                     /\ rolePermissions' = [rolePermissions EXCEPT ![id] = rows]
                     /\ UNCHANGED nextRoleId
                     /\ Finish(p, Ok(<<Role(id, row.name, rows)>>))
    /\ UNCHANGED <<users, nextId, now, pageVars, metaVars, fileVars, http>>

(* RoleService.delete: the role's rows go with it (ON DELETE CASCADE) *)
RoleDelete(p, id, fault) ==
    /\ Idle(p)
    /\ CallRole(p, "role.delete", id, None, None, fault)
    /\ IF fault \/ ~IsSome(roles[id])
       THEN /\ Finish(p, BackendError)
            /\ UNCHANGED roleVars
       ELSE /\ roles' = [roles EXCEPT ![id] = None]
            /\ rolePermissions' = [rolePermissions EXCEPT ![id] = <<>>]
            /\ UNCHANGED nextRoleId
            /\ Finish(p, Ok(<<Include(Val(roles[id]))>>))
    /\ UNCHANGED <<users, nextId, now, pageVars, metaVars, fileVars, http>>

(* RoleService.findOne: the role with its permissions, or null *)
RoleFindOne(p, id, fault) ==
    /\ Idle(p)
    /\ CallRole(p, "role.findOne", id, None, None, fault)
    /\ IF fault THEN Finish(p, BackendError)
       ELSE Finish(p, Ok(IF IsSome(roles[id]) THEN Some(Include(Val(roles[id])))
                         ELSE None))
    /\ UNCHANGED <<users, nextId, now, pageVars, metaVars, fileVars, roleVars, http>>

----------------------------------------------------------------------------
(* HttpClientService: one request through the axios instance and its        *)
(* response-error interceptor.  An attempt ends with a response or, at the  *)
(* latest when the timeout of the instance expires, without one.            *)

DefaultRetries == 3

NoResponse == [response |-> FALSE, status |-> 0]
HttpResponse(status) == [response |-> TRUE, status |-> status]

(* axios resolves a response whose status validateStatus accepts (2xx) *)
ValidateStatus(status) == status >= 200 /\ status < 300

(* response.data of a resolved attempt *)
ResponseData(status) == [kind |-> "data", status |-> Some(status)]

(* formatError: status is error.response?.status *)
formatError(error) ==
    [kind |-> "rejected",
     status |-> IF error.response THEN Some(error.status) ELSE None]

NoResult == [kind |-> "none", status |-> None]

HttpState(pc_, asked, retries, attempts, last, result) ==
    [pc |-> pc_, asked |-> asked, retries |-> retries, attempts |-> attempts,
     last |-> last, result |-> result]

NoRequest == HttpState("idle", None, None, 0, NoResponse, NoResult)

shouldRetry_ClientErrorsToo(error) ==
    IF ~error.response THEN TRUE
    ELSE error.status >= 400 /\ error.status < 600

(* shouldRetry: no response, or a 5xx status *)
shouldRetry(error) ==
    IF ~error.response THEN TRUE
    ELSE error.status >= 500 /\ error.status < 600

(* get / post / put / patch / delete: the first attempt is sent with the    *)
(* caller's options, which may carry retries                                *)
HttpRequest(retries) ==
    /\ http.pc = "idle"
    /\ http' = HttpState("sent", retries, retries, 0, NoResponse, NoResult)
    /\ UNCHANGED <<userVars, pageVars, metaVars, fileVars, roleVars>>

(* an attempt ends: a 2xx response resolves the request with its data, any  *)
(* other outcome goes through handleResponseError                           *)
HttpAttempt(outcome) ==
    /\ http.pc = "sent"
    /\ LET retries == IF IsSome(http.retries) THEN Val(http.retries)
                      ELSE DefaultRetries
       IN  IF outcome.response /\ ValidateStatus(outcome.status)
           THEN http' = [http EXCEPT !.pc = "idle", !.attempts = @ + 1,
                                     !.last = outcome,
                                     !.result = ResponseData(outcome.status)]
           ELSE IF retries > 0 /\ shouldRetry(outcome)
           THEN http' = [http EXCEPT !.pc = "sleep", !.attempts = @ + 1,
                                     !.last = outcome,
                                     !.retries = Some(retries - 1)]
           ELSE http' = [http EXCEPT !.pc = "idle", !.attempts = @ + 1,
                                     !.last = outcome,
                                     !.result = formatError(outcome)]
    /\ UNCHANGED <<userVars, pageVars, metaVars, fileVars, roleVars>>

(* the retry delay is over: axiosInstance.request(config) *)
HttpWake ==
    /\ http.pc = "sleep"
    /\ http' = [http EXCEPT !.pc = "sent"]
    /\ UNCHANGED <<userVars, pageVars, metaVars, fileVars, roleVars>>

(* time passes *)
Tick ==
    /\ now < MaxClock
    /\ now' = now + 1
    /\ UNCHANGED <<users, nextId, pc, loc, resp, pageVars, metaVars, fileVars, roleVars, http>>

----------------------------------------------------------------------------
(* The pagination composer on raw input *)

RawNumbers == {-5, -1, 0, 1, 2, 3, 10, 100, 101, 9999}
DtoNumbers == {JsUndef, JsNaN} \cup {JsNum(n) : n \in RawNumbers}
QueryStrings == {QAbsent, QEmpty, QJunk} \cup {QInt(n) : n \in RawNumbers}

NoPage == [fn |-> "none", page |-> QAbsent, limit |-> QAbsent]
NoDescriptor == Descriptor(JsUndef, JsUndef, JsUndef)

(* the dto of a query parameter after class-transformer's Number(): what    *)
(* getPaginationOptions is handed when nothing validates the dto            *)
ToDto(q) ==
    CASE q.tag = "absent" -> JsUndef
      [] q.tag = "empty" -> JsNum(0)
      [] q.tag = "junk" -> JsNaN
      [] OTHER -> JsNum(q.v)

ComposeQueryHelper(page, limit) ==
    /\ pgIn' = [fn |-> "getPaginationOptions", page |-> page, limit |-> limit]
    /\ pgOut' = getPaginationOptions([page |-> ToDto(page), limit |-> ToDto(limit)])
    /\ UNCHANGED <<userVars, metaVars, fileVars, roleVars, http>>

ComposeDecoratorV1(page, limit) ==
    /\ pgIn' = [fn |-> "PaginationV1", page |-> page, limit |-> limit]
    /\ pgOut' = PaginationV1([page |-> page, limit |-> limit])
    /\ UNCHANGED <<userVars, metaVars, fileVars, roleVars, http>>

ComposeDecoratorV2(page, limit) ==
    /\ pgIn' = [fn |-> "PaginationV2", page |-> page, limit |-> limit]
    /\ pgOut' = PaginationV2([page |-> page, limit |-> limit])
    /\ UNCHANGED <<userVars, metaVars, fileVars, roleVars, http>>

(* the result-metadata builder on a (page, limit, total) of a list query *)
NoMetaIn == [page |-> 0, limit |-> 0, total |-> 0]

ComposeMeta(page, limit, total) ==
    /\ metaIn' = [page |-> page, limit |-> limit, total |-> total]
    /\ metaOut' = buildMeta(page, limit, total)
    /\ UNCHANGED <<userVars, pageVars, fileVars, roleVars, http>>

----------------------------------------------------------------------------
(* Specifications *)

Init ==
    /\ users = [i \in Ids |-> None]
    /\ nextId = 1
    /\ now = 0
    /\ pc = [p \in Procs |-> "idle"]
    /\ loc = [p \in Procs |-> NoArgs]
    /\ resp = [p \in Procs |-> Pending]
    /\ pgIn = NoPage
    /\ pgOut = NoDescriptor
    /\ metaIn = NoMetaIn
    /\ metaOut = NoMeta
    /\ bucket = {}
    /\ usedUuids = {}
    /\ roles = [i \in RoleIds |-> None]
    /\ rolePermissions = [i \in RoleIds |-> <<>>]
    /\ nextRoleId = 1
    /\ http = NoRequest

(* A workload: the request payloads the clients send *)
Workload(emails, names, passwords, updates, statuses, queries) ==
    [emails |-> emails, names |-> names, passwords |-> passwords,
     updates |-> updates, statuses |-> statuses, queries |-> queries]

(* an UpdateUserDto: each field is optional *)
UpdateDto(email, name, password) ==
    [email |-> email, name |-> name, password |-> password]

Query(page, limit, q, sortBy, sortOrder) ==
    [page |-> page, limit |-> limit, q |-> q, sortBy |-> sortBy,
     sortOrder |-> sortOrder]

(* list queries that pass PaginationWithSearchDto's validation *)
ListQueries ==
    { Query(JsUndef, JsUndef, None, None, None),
      Query(JsNum(1), JsNum(1), None, Some("email"), Some("asc")),
      Query(JsNum(2), JsNum(1), None, Some("email"), None),
      Query(JsNum(1), JsNum(2), Some(<<"a">>), Some("createdAt"), Some("desc")),
      Query(JsUndef, JsNum(2), Some(<<"b", "x">>), None, None),
      Query(JsUndef, JsUndef, Some(<<>>), Some("bogus"), None) }

UserStep(p, w) ==
    \/ \E e \in w.emails, n \in Opt(w.names), c \in w.passwords :
          Create(p, e, n, c)
    \/ CreateInsert(p)
    \/ \E f \in w.queries : FindAll(p, f.page, f.limit, f.q, f.sortBy, f.sortOrder)
    \/ FindAllCount(p)
    \/ \E i \in Ids : FindOne(p, i)
    \/ \E e \in w.emails : FindByEmail(p, e)
    \/ \E i \in Ids, d \in w.updates : Update(p, i, d.email, d.name, d.password)
    \/ UpdateCheck(p)
    \/ UpdateWrite(p)
    \/ \E i \in Ids : Remove(p, i)
    \/ RemoveWrite(p)
    \/ \E i \in Ids : Restore(p, i)
    \/ RestoreWrite(p)
    \/ \E i \in Ids : ForceDelete(p, i)
    \/ ForceDeleteDelete(p)
    \/ \E i \in Ids, s \in w.statuses : UpdateStatus(p, i, s)
    \/ UpdateStatusWrite(p)
    \/ \E e \in w.emails, c \in Passwords : ValidateCredentials(p, e, c, FALSE)

(* requests served one at a time *)
SeqUpdates ==
    { UpdateDto(Some(<<"a", "x">>), None, None),
      UpdateDto(Some(<<"B", "x">>), None, None),
      UpdateDto(None, Some(<<"A", "b">>), None),
      UpdateDto(None, None, Some("pw2")),
      UpdateDto(Some(<<"B", "x">>), Some(<<"A", "b">>), Some("pw2")) }

SeqWorkload ==
    Workload(Emails, Names, {"pw1"}, SeqUpdates, {"ACTIVE", "SUSPENDED"},
             ListQueries)

Next ==
    \/ UserStep("r1", SeqWorkload)
    \/ Tick

Spec == Init /\ [][Next]_vars

(* every status transition, requests served one at a time *)
StatusWorkload ==
    Workload(Emails, {}, {"pw1"}, {UpdateDto(Some(<<"B", "x">>), None, None)},
             UserStatus, {Query(JsUndef, JsUndef, None, None, None)})

StatusNext ==
    \/ UserStep("r1", StatusWorkload)
    \/ Tick

StatusSpec == Init /\ [][StatusNext]_vars

(* two requests served concurrently, within one reading of the clock *)
ConcWorkload ==
    Workload(Emails, {}, {"pw1"},
             {UpdateDto(Some(<<"a", "x">>), None, None),
              UpdateDto(Some(<<"B", "x">>), None, None)},
             {"SUSPENDED"}, {Query(JsUndef, JsUndef, None, None, None)})

ConcNext == \E p \in Procs : UserStep(p, ConcWorkload)

ConcSpec == Init /\ [][ConcNext]_vars

(* the file endpoints: uploads of new files and of files named like a      *)
(* stored object, lookups and deletes by name and by fragment              *)
FileWorkload(originals, buffers, identifiers, faults) ==
    [originals |-> originals, buffers |-> buffers, identifiers |-> identifiers,
     faults |-> faults]

FileStep(p, w) ==
    \/ \E n \in w.originals \cup ObjectNames, b \in w.buffers, f \in w.faults :
          UploadFile(p, MulterFile(n, b, "text/plain"), f)
    \/ \E i \in w.identifiers \cup ObjectNames, f \in w.faults :
          GetFile(p, i, f)
    \/ \E i \in w.identifiers \cup ObjectNames, f \in w.faults :
          DeleteFile(p, i, f)
    \/ \E f \in w.faults : GetFileMetadata(p, f)
    \/ \E f \in w.faults : GetFileByIdList(p, f)
    \/ \E f \in w.faults : GetFileByIdStat(p, f)
    \/ \E f \in w.faults : DeleteFileRemove(p, f)

Originals == { <<"f">>, <<"f", " ">> }
Buffers == { <<"c">>, <<"d", "d">> }
Identifiers == { <<"u">>, <<"-", "f">>, <<"z">>, <<"0", "-", "v", "-", "f">> }

(* the store answers every call *)
FileNext ==
    \/ FileStep("r1", FileWorkload(Originals, Buffers, Identifiers, {FALSE}))
    \/ Tick

FileSpec == Init /\ [][FileNext]_vars

(* uploads of files whose names mix letters, digits, '.', '-', '_' and      *)
(* blanks                                                                  *)
NameOriginals ==
    { <<"A">>, <<" ">>, <<"f", ".">>, <<"0", "-">>, <<"_", " ">>, <<" ", "f">>,
      <<".", "_", " ">>, <<"-", " ", "x">> }

NameNext ==
    \/ \E n \in NameOriginals : UploadFile("r1", MulterFile(n, <<"c">>, "text/plain"), FALSE)
    \/ Tick

NameSpec == Init /\ [][NameNext]_vars

(* requests to a remote service that answers with any of these statuses or *)
(* not at all                                                              *)
Statuses == {200, 204, 304, 400, 404, 500, 502, 503}
Outcomes == {NoResponse} \cup {HttpResponse(status) : status \in Statuses}

HttpNext ==
    \/ \E retries \in Opt(0 .. MaxRequestRetries) : HttpRequest(retries)
    \/ \E outcome \in Outcomes : HttpAttempt(outcome)
    \/ HttpWake

HttpSpec == Init /\ [][HttpNext]_vars

(* an attempt ends within the timeout of the axios instance and the timer   *)
(* of sleep fires                                                           *)
HttpFairSpec ==
    /\ HttpSpec
    /\ WF_vars(\E outcome \in Outcomes : HttpAttempt(outcome))
    /\ WF_vars(HttpWake)

(* every call of the store may fail (store unreachable, transport error) *)
FileFaultNext ==
    \/ FileStep("r1", FileWorkload({<<"f">>}, {<<"c">>}, Identifiers,
                                   {FALSE, TRUE}))
    \/ Tick

FileFaultSpec == Init /\ [][FileFaultNext]_vars

(* the role endpoints *)
RoleWorkload(names, permissions, faults) ==
    [names |-> names, permissions |-> permissions, faults |-> faults]

RoleStep(p, w) ==
    \/ \E n \in w.names, ps \in Opt(w.permissions), f \in w.faults :
          RoleCreate(p, n, ps, f)
    \/ \E i \in RoleIds, n \in Opt(w.names), ps \in Opt(w.permissions),
          f \in w.faults :
          RoleUpdate(p, i, n, ps, f)
    \/ \E i \in RoleIds, f \in w.faults : RoleDelete(p, i, f)
    \/ \E i \in RoleIds, f \in w.faults : RoleFindOne(p, i, f)

RoleNames == {"admin", "editor"}

(* permission arrays that pass CreateRoleDto's validation *)
PermissionArrays ==
    { <<>>,
      <<PermissionDto("USER", <<"READ", "UPDATE">>)>>,
      <<PermissionDto("USER", <<"READ">>),
        PermissionDto("PERMISSION", <<"READ", "DELETE">>)>>,
      <<PermissionDto("USER", <<>>)>>,
      <<PermissionDto("USER", <<"READ", "READ">>)>>,
      <<PermissionDto("USER", <<"UPDATE">>), PermissionDto("USER", <<"UPDATE">>)>> }

RoleNext == RoleStep("r1", RoleWorkload(RoleNames, PermissionArrays, {FALSE}))

RoleSpec == Init /\ [][RoleNext]_vars

(* the three services with a persistence layer and an object store that   *)
(* may fail at every call                                                  *)
FaultWorkload ==
    Workload({<<"a", "x">>}, {}, {"pw1"},
             {UpdateDto(Some(<<"a", "x">>), None, None)}, {"SUSPENDED"},
             {Query(JsUndef, JsUndef, None, None, None)})

FaultNext ==
    \/ UserStep("r1", FaultWorkload)
    \/ \E op \in GuardedOps : FailedCall("r1", op)
    \/ DatabaseFailure("r1")
    \/ \E e \in FaultWorkload.emails, c \in Passwords :
          ValidateCredentials("r1", e, c, TRUE)
    \/ RoleStep("r1", RoleWorkload({"admin"},
                     {<<PermissionDto("USER", <<"READ", "UPDATE">>)>>},
                     {FALSE, TRUE}))
    \/ FileStep("r1", FileWorkload({<<"f">>}, {<<"c">>}, {<<"u">>, <<"z">>},
                                   {FALSE, TRUE}))

FaultSpec == Init /\ [][FaultNext]_vars

(* two file requests served concurrently, the store answering every call *)
FileConcNext ==
    \E p \in Procs :
        FileStep(p, FileWorkload({<<"f">>}, {<<"c">>}, {<<"u">>, <<"-", "f">>},
                                 {FALSE}))

FileConcSpec == Init /\ [][FileConcNext]_vars

(* the pagination composer applied to every raw input *)
PageNext ==
    \E page \in QueryStrings, limit \in QueryStrings :
        \/ ComposeQueryHelper(page, limit)
        \/ ComposeDecoratorV1(page, limit)
        \/ ComposeDecoratorV2(page, limit)

PageSpec == Init /\ [][PageNext]_vars

(* the result-metadata builder applied to pages >= 1, limits in            *)
(* [1, MaxLimit] and totals >= 0 within the bounds                         *)
MetaLimits == {1, 2, 3, 7, DefaultLimit, MaxLimit}

MetaNext ==
    \E page \in 1 .. MaxPage, limit \in MetaLimits, total \in 0 .. MaxTotal :
        ComposeMeta(page, limit, total)

MetaSpec == Init /\ [][MetaNext]_vars

----------------------------------------------------------------------------
(* Vocabulary of the properties *)

RowOf(u, i) == Val(u[i])
ExistsIn(u, i) == IsSome(u[i])
LiveIn(u, i) == ExistsIn(u, i) /\ ~IsSome(RowOf(u, i).deletedAt)
SoftDeletedIn(u, i) == ExistsIn(u, i) /\ IsSome(RowOf(u, i).deletedAt)

(* some other row than `self` holds `email` in table u *)
HeldIn(u, email, self) ==
    \E i \in Ids : i # self /\ ExistsIn(u, i) /\ RowOf(u, i).email = email

(* slot p moves in this step *)
Moves(p) == <<pc[p], loc[p], resp[p]>> # <<pc'[p], loc'[p], resp'[p]>>

(* this step is the call of op in slot p *)
Called(p, op) == pc[p] = "idle" /\ Moves(p) /\ loc'[p].op = op

(* this step is the one in which slot p's handler of op returns or throws *)
Returned(p, op) == pc'[p] = "idle" /\ Moves(p) /\ loc'[p].op = op

(* slot p holds the outcome of a finished call of op *)
Done(p, op) == pc[p] = "idle" /\ loc[p].op = op

Fails(p, exception) ==
    /\ pc'[p] = "idle"
    /\ resp'[p] = exception
    /\ users' = users

----------------------------------------------------------------------------
(* C1: a user whose deletedAt is set is not returned by findOne (NotFound),  *)
(* does not appear in the data of findAll for any query, and is not returned *)
(* by findByEmail (null): whatever one of them has just returned holds live  *)
(* rows only, and nothing for a soft-deleted id or email.                    *)
C1_SoftDeletedHidden ==
    \A p \in Procs :
        /\ Done(p, "findOne") =>
              /\ ~IsLive(loc[p].id) => resp[p] = NotFoundException
              /\ IsLive(loc[p].id) =>
                    resp[p] = Ok(<<excludePassword(Val(users[loc[p].id]))>>)
        /\ Done(p, "findAll") /\ resp[p].kind = "ok" =>
              \A k \in DOMAIN resp[p].data :
                  /\ IsLive(resp[p].data[k].id)
                  /\ resp[p].data[k] = excludePassword(Val(users[resp[p].data[k].id]))
        /\ Done(p, "findByEmail") =>
              /\ resp[p].kind = "ok"
              /\ \A k \in DOMAIN resp[p].data :
                    /\ IsLive(resp[p].data[k].id)
                    /\ resp[p].data[k].email = Val(loc[p].email)
              /\ (~\E i \in Ids : IsLive(i) /\ Val(users[i]).email = Val(loc[p].email))
                    => resp[p].data = <<>>

(* findAll without a search term has returned the one live user while the   *)
(* other user is soft-deleted                                               *)
C1_Witness ==
    /\ Done("r1", "findAll")
    /\ resp["r1"].kind = "ok"
    /\ loc["r1"].q = None
    /\ Len(resp["r1"].data) = 1
    /\ \E i \in Ids : IsSoftDeleted(i)

----------------------------------------------------------------------------
(* C2: remove then restore is a round trip.  remove on a live user only     *)
(* sets deletedAt; while the row is soft-deleted nothing but restore and    *)
(* forceDelete touches it; restore of a soft-deleted user succeeds, only    *)
(* clears deletedAt and returns the row; findOne then returns that row: id, *)
(* email, name and status are those from before remove.                     *)
C2_Step ==
    \A p \in Procs :
        LET id == loc'[p].id
        IN  /\ Called(p, "remove") /\ IsLive(id) => pc'[p] = "remove_write"
            /\ pc[p] = "remove_write" /\ Moves(p) =>
                  /\ resp'[p] = Ok(<<>>)
                  /\ SoftDeletedIn(users', id)
                  /\ users' = [users EXCEPT ![id] =
                        Some([RowOf(users, id) EXCEPT !.deletedAt = RowOf(users', id).deletedAt])]
            /\ \A i \in Ids :
                  IsSoftDeleted(i) /\ ExistsIn(users', i) =>
                      [RowOf(users', i) EXCEPT !.deletedAt = None] =
                      [RowOf(users, i) EXCEPT !.deletedAt = None]
            /\ Called(p, "restore") /\ IsSoftDeleted(id) => pc'[p] = "restore_write"
            /\ pc[p] = "restore_write" /\ Moves(p) =>
                  /\ users' = [users EXCEPT ![id] =
                        Some([RowOf(users, id) EXCEPT !.deletedAt = None])]
                  /\ resp'[p] = Ok(<<excludePassword(RowOf(users', id))>>)
            /\ Called(p, "findOne") /\ IsLive(id) =>
                  resp'[p] = Ok(<<excludePassword(RowOf(users, id))>>)

C2_RoundTrip == [][C2_Step]_vars

(* restore has returned a user that carries a name and a status other than  *)
(* the default                                                              *)
C2_Witness ==
    /\ Done("r1", "restore")
    /\ resp["r1"].kind = "ok"
    /\ IsLive(loc["r1"].id)
    /\ Val(users[loc["r1"].id]).status = "SUSPENDED"
    /\ IsSome(Val(users[loc["r1"].id]).name)

----------------------------------------------------------------------------
(* C3: remove on an id that has no row or whose row is already soft-deleted *)
(* fails with NotFound and writes nothing: the table, and with it the       *)
(* existing deletedAt, is unchanged.                                        *)
C3_Step ==
    \A p \in Procs :
        Called(p, "remove") /\ ~IsLive(loc'[p].id) => Fails(p, NotFoundException)

C3_RemoveRejected == [][C3_Step]_vars

(* remove was rejected on a row soft-deleted at an earlier time *)
C3_Witness ==
    /\ Done("r1", "remove")
    /\ resp["r1"] = NotFoundException
    /\ IsSoftDeleted(loc["r1"].id)
    /\ Val(Val(users[loc["r1"].id]).deletedAt) < now

----------------------------------------------------------------------------
(* C4: restore fails with NotFound when the id has no row and with Conflict *)
(* when the row's deletedAt is null, leaving the table unchanged; it gets   *)
(* to its write, and succeeds, only for a soft-deleted row.                 *)
C4_Step ==
    \A p \in Procs :
        LET id == loc'[p].id
        IN  /\ Called(p, "restore") /\ ~Exists(id) => Fails(p, NotFoundException)
            /\ Called(p, "restore") /\ IsLive(id) => Fails(p, ConflictException)
            /\ Called(p, "restore") /\ IsSoftDeleted(id) => pc'[p] = "restore_write"
            /\ Returned(p, "restore") /\ resp'[p].kind = "ok" =>
                  IsSoftDeleted(id) /\ LiveIn(users', id)

C4_RestorePreconditions == [][C4_Step]_vars

(* restore was refused with Conflict on a live user *)
C4_Witness ==
    /\ Done("r1", "restore")
    /\ resp["r1"] = ConflictException
    /\ IsLive(loc["r1"].id)

----------------------------------------------------------------------------
(* C5: forceDelete succeeds on a live and on a soft-deleted row and removes *)
(* it; on an id without a row it fails with NotFound; a removed row never   *)
(* comes back, and findOne, update, updateStatus, remove, restore and       *)
(* forceDelete on an id without a row fail with NotFound.                   *)
C5_Step ==
    /\ \A i \in Ids : i < nextId /\ ~Exists(i) => ~ExistsIn(users', i)
    /\ \A p \in Procs :
          LET id == loc'[p].id
          IN  /\ Called(p, "forceDelete") /\ Exists(id) =>
                    pc'[p] = "forceDelete_delete"
              /\ pc[p] = "forceDelete_delete" /\ Moves(p) =>
                    /\ resp'[p] = Ok(<<>>)
                    /\ users' = [users EXCEPT ![id] = None]
              /\ \A op \in {"findOne", "update", "updateStatus", "remove",
                            "restore", "forceDelete"} :
                    Called(p, op) /\ ~Exists(id) => Fails(p, NotFoundException)

C5_HardDeleteIrreversible == [][C5_Step]_vars

(* restore was answered NotFound for a user that was hard-deleted *)
C5_Witness ==
    /\ Done("r1", "restore")
    /\ resp["r1"] = NotFoundException
    /\ loc["r1"].id < nextId
    /\ ~Exists(loc["r1"].id)

----------------------------------------------------------------------------
(* C6, as claimed: create, and update of an existing row with an email,     *)
(* fail with Conflict whenever another row, live or soft-deleted, holds the *)
(* email, and leave the table unchanged.                                    *)
C6_ConflictAsClaimed ==
    \A p \in Procs :
        /\ Called(p, "create") /\ HeldIn(users, Val(loc'[p].email), 0) =>
              Fails(p, ConflictException)
        /\ /\ Returned(p, "update")
           /\ Exists(loc'[p].id)
           /\ IsSome(loc'[p].email)
           /\ HeldIn(users, Val(loc'[p].email), loc'[p].id)
           => Fails(p, ConflictException)

C6_Original == [][C6_ConflictAsClaimed]_vars

(* C6, amended: create, and update of a live user with an email, fail with  *)
(* Conflict whenever another row, live or soft-deleted, holds the email     *)
(* (update of a soft-deleted or missing user fails with NotFound instead),  *)
(* and leave the table unchanged; an email nobody holds is accepted; the    *)
(* email of a soft-deleted user stops being held only when forceDelete      *)
(* removes that row.                                                        *)
C6_Step ==
    /\ \A p \in Procs :
        /\ Called(p, "create") /\ HeldIn(users, Val(loc'[p].email), 0) =>
              Fails(p, ConflictException)
        /\ Called(p, "create") /\ ~HeldIn(users, Val(loc'[p].email), 0) =>
              pc'[p] = "create_insert"
        /\ pc[p] = "create_insert" /\ Moves(p) =>
              /\ resp'[p].kind = "ok"
              /\ LiveIn(users', nextId)
              /\ RowOf(users', nextId).email = Val(loc[p].email)
        /\ /\ Returned(p, "update")
           /\ IsSome(loc'[p].email)
           /\ HeldIn(users, Val(loc'[p].email), loc'[p].id)
           => IF IsLive(loc'[p].id) THEN Fails(p, ConflictException)
              ELSE Fails(p, NotFoundException)
    /\ \A i \in Ids :
          IsSoftDeleted(i) /\ ~HeldIn(users', Val(users[i]).email, 0) =>
              /\ ~ExistsIn(users', i)
              /\ \E p \in Procs : pc[p] = "forceDelete_delete" /\ loc[p].id = i

C6_EmailUniqueness == [][C6_Step]_vars

(* update was refused with Conflict because a soft-deleted user holds the   *)
(* email                                                                    *)
C6_Witness ==
    /\ Done("r1", "update")
    /\ resp["r1"] = ConflictException
    /\ IsLive(loc["r1"].id)
    /\ \E i \in Ids : /\ IsSoftDeleted(i)
                      /\ Val(users[i]).email = Val(loc["r1"].email)

----------------------------------------------------------------------------
(* C7: of two concurrent restores of one soft-deleted user, or two          *)
(* concurrent removes of one live user, the one that writes second fails    *)
(* with NotFound or Conflict and does not write.  Slot q has won: its call  *)
(* has succeeded and the row is as it left it; slot p passed its check      *)
(* before that and now makes its write.                                     *)
C7_Step ==
    \A p, q \in Procs :
        /\ p # q
        /\ Moves(p)
        /\ loc[p].id = loc[q].id
        /\ resp[q].kind = "ok"
        /\ \/ /\ pc[p] = "restore_write"
              /\ Done(q, "restore")
              /\ IsLive(loc[p].id)
           \/ /\ pc[p] = "remove_write"
              /\ Done(q, "remove")
              /\ IsSoftDeleted(loc[p].id)
        => /\ resp'[p].kind \in {"NotFound", "Conflict"}
           /\ users' = users

C7_OneWinner == [][C7_Step]_vars

----------------------------------------------------------------------------
(* C8: updateStatus(id, s) on a live user is never rejected, whatever the   *)
(* current status and s are; its write changes the status of that row to s  *)
(* and nothing else, and the updated row is returned.                       *)
C8_Step ==
    \A p \in Procs :
        LET id == loc'[p].id
        IN  /\ Called(p, "updateStatus") /\ IsLive(id) =>
                  pc'[p] = "updateStatus_write"
            /\ pc[p] = "updateStatus_write" /\ Moves(p) =>
                  /\ users' = [users EXCEPT ![id] =
                        Some([RowOf(users, id) EXCEPT !.status = Val(loc[p].status)])]
                  /\ resp'[p] = Ok(<<excludePassword(RowOf(users', id))>>)

C8_AnyStatusTransition == [][C8_Step]_vars

(* updateStatus has returned a user made PENDING while another user is      *)
(* INACTIVE                                                                 *)
C8_Witness ==
    /\ Done("r1", "updateStatus")
    /\ resp["r1"].kind = "ok"
    /\ resp["r1"].data[1].status = "PENDING"
    /\ Val(users[loc["r1"].id]).status = "PENDING"
    /\ \E i \in Ids : Exists(i) /\ Val(users[i]).status = "INACTIVE"

----------------------------------------------------------------------------
(* C9: update and updateStatus on an id whose row is soft-deleted or        *)
(* missing fail with NotFound and write nothing.                            *)
C9_Step ==
    \A p \in Procs :
        \A op \in {"update", "updateStatus"} :
            Called(p, op) /\ ~IsLive(loc'[p].id) => Fails(p, NotFoundException)

C9_UpdateRejected == [][C9_Step]_vars

(* update carrying an email, a name and a password was refused with         *)
(* NotFound on a soft-deleted user                                          *)
C9_Witness ==
    /\ Done("r1", "update")
    /\ resp["r1"] = NotFoundException
    /\ IsSoftDeleted(loc["r1"].id)
    /\ IsSome(loc["r1"].email)
    /\ IsSome(loc["r1"].name)
    /\ IsSome(loc["r1"].password)
    /\ Val(loc["r1"].email) # Val(users[loc["r1"].id]).email

----------------------------------------------------------------------------
(* C10 *)

(* take in [1, 100] and skip >= 0 *)
Bounded(d) ==
    /\ IsNum(d.limit) /\ d.limit.v >= 1 /\ d.limit.v <= MaxLimit
    /\ IsNum(d.skip) /\ d.skip.v >= 0

(* a page or limit that is absent or an integer: zero, negative, large *)
IntegerInput(q) == q.tag \in {"absent", "int"}

DtoPage(q) == q.tag = "absent" \/ (q.tag = "int" /\ q.v >= 0)
DtoLimit(q) == q.tag = "absent" \/ (q.tag = "int" /\ q.v >= 0 /\ q.v <= MaxLimit)

----------------------------------------------------------------------------
(* C11: for every page >= 1, limit in [1,100] and total >= 0, buildMeta     *)
(* returns totalPages = ceil(total/limit), that is the least whole number   *)
(* of pages of `limit` rows that hold `total` rows; hasNextPage is true     *)
(* exactly when page < totalPages and hasPreviousPage exactly when          *)
(* page > 1.  total=25, limit=10, page=3 gives 3, false, true; total=0      *)
(* gives totalPages=0 and hasNextPage=false.                                *)
C11_BuildMeta ==
    metaIn # NoMetaIn =>
        /\ metaOut.page = metaIn.page
        /\ metaOut.limit = metaIn.limit
        /\ metaOut.total = metaIn.total
        /\ metaOut.totalPages >= 0
        /\ metaOut.totalPages * metaIn.limit >= metaIn.total
        /\ (metaOut.totalPages - 1) * metaIn.limit < metaIn.total
        /\ metaOut.hasNextPage = (metaIn.page < metaOut.totalPages)
        /\ metaOut.hasPreviousPage = (metaIn.page > 1)
        /\ metaIn.total = 0 => metaOut.totalPages = 0 /\ ~metaOut.hasNextPage
        /\ metaIn = [page |-> 3, limit |-> 10, total |-> 25] =>
              /\ metaOut.totalPages = 3
              /\ ~metaOut.hasNextPage
              /\ metaOut.hasPreviousPage

(* the metadata of the last, partly filled page: total=25, limit=10, page=3 *)
C11_Witness ==
    /\ metaIn = [page |-> 3, limit |-> 10, total |-> 25]
    /\ metaOut.totalPages = 3
    /\ ~metaOut.hasNextPage
    /\ metaOut.hasPreviousPage

----------------------------------------------------------------------------
(* Vocabulary of the file properties *)

(* the metadata the endpoints return for the stored object o *)
MetadataOf(o) == UploadResponse(o.name, o.etag, o.size, o.contentType)

(* the stored objects whose name contains the identifier *)
Matching(objs, identifier) == {o \in objs : Contains(o.name, identifier)}

(* o comes before every other matching object in the bucket listing *)
FirstListed(objs, identifier, o) ==
    /\ o \in Matching(objs, identifier)
    /\ \A r \in Matching(objs, identifier) : r = o \/ StrLess(o.name, r.name)

(* object o was stored under a name generated for originalName *)
GeneratedFor(o, originalName) ==
    /\ Len(o.name) = 4 + Len(originalName)
    /\ SubSeq(o.name, 5, Len(o.name)) = Sanitize(originalName)

----------------------------------------------------------------------------
(* C12: GET /files/:identifier resolves the exact name first.  Whenever an   *)
(* object named exactly by the identifier is stored, the response is that    *)
(* object's metadata, also when other object names contain the identifier    *)
(* and come earlier in the listing; the listing scan is entered only when no *)
(* object has the exact name.                                                *)
C12_ExactNameFirst ==
    \A p \in Procs :
        /\ Done(p, "getFile") /\ loc[p].identifier \in ObjectNames =>
              /\ resp[p] = Ok(<<MetadataOf(Val(StatObject(loc[p].identifier)))>>)
              /\ resp[p].data[1].objectName = loc[p].identifier
              /\ loc[p].match = <<>>
        /\ loc[p].op = "getFile"
              /\ pc[p] \in {"getFileById_list", "getFileById_stat"} =>
              loc[p].identifier \notin ObjectNames

(* getFile has answered for an exact name that is also part of another      *)
(* object's name, and that other object comes first in the listing          *)
C12_Witness ==
    /\ Done("r1", "getFile")
    /\ loc["r1"].identifier \in ObjectNames
    /\ resp["r1"].kind = "ok"
    /\ resp["r1"].data[1].objectName = loc["r1"].identifier
    /\ \E o \in bucket :
          /\ o.name # loc["r1"].identifier
          /\ Contains(o.name, loc["r1"].identifier)
          /\ StrLess(o.name, loc["r1"].identifier)

----------------------------------------------------------------------------
(* C13: when no object is named exactly by the identifier, GET returns the   *)
(* first object in listing order whose name contains the identifier; when no *)
(* object name contains it the answer is NotFound (getFileById's null),      *)
(* never an internal error.                                                  *)
C13_SubstringScan ==
    \A p \in Procs :
        Done(p, "getFile") /\ loc[p].identifier \notin ObjectNames =>
            /\ Matching(bucket, loc[p].identifier) = {} =>
                  resp[p] = NotFoundException
            /\ Matching(bucket, loc[p].identifier) # {} =>
                  /\ resp[p].kind = "ok"
                  /\ \E o \in bucket :
                        /\ FirstListed(bucket, loc[p].identifier, o)
                        /\ resp[p] = Ok(<<MetadataOf(o)>>)

(* getFile has resolved a fragment that two stored names contain *)
C13_Witness ==
    /\ Done("r1", "getFile")
    /\ loc["r1"].identifier \notin ObjectNames
    /\ Cardinality(Matching(bucket, loc["r1"].identifier)) = 2
    /\ resp["r1"].kind = "ok"
    /\ \E o \in bucket : /\ FirstListed(bucket, loc["r1"].identifier, o)
                          /\ resp["r1"].data[1].objectName = o.name

----------------------------------------------------------------------------
(* C14: a successful upload stores its object under a name no stored object  *)
(* has, whatever the original file name, so it overwrites nothing: every     *)
(* earlier object is still there, the bucket has one object more, and the    *)
(* returned objectName names exactly the uploaded object.                    *)
C14_Step ==
    \A p \in Procs :
        Returned(p, "uploadFile") /\ resp'[p].kind = "ok" =>
            LET r == resp'[p].data[1]
                file == Val(loc'[p].file)
            IN  /\ r.objectName \notin ObjectNames
                /\ bucket \subseteq bucket'
                /\ Cardinality(bucket') = Cardinality(bucket) + 1
                /\ \E o \in bucket' :
                      /\ o.name = r.objectName
                      /\ o.etag = Etag(file.buffer)
                      /\ r = MetadataOf(o)
                      /\ GeneratedFor(o, file.originalname)
                      /\ \A q \in bucket' : q.name = r.objectName => q = o

C14_DistinctObjectNames == [][C14_Step]_vars

(* the second of two uploads with the same original name has returned, and   *)
(* both objects are stored                                                   *)
C14_Witness ==
    /\ Done("r1", "uploadFile")
    /\ resp["r1"].kind = "ok"
    /\ \E o1, o2 \in bucket :
          /\ o1.name # o2.name
          /\ o2.name = resp["r1"].data[1].objectName
          /\ GeneratedFor(o1, Val(loc["r1"].file).originalname)
          /\ GeneratedFor(o2, Val(loc["r1"].file).originalname)

----------------------------------------------------------------------------
(* Vocabulary of the role properties *)

(* the (resource, action) pairs of a permissions array, absent meaning none *)
PairsOf(permissions) ==
    IF IsSome(permissions)
    THEN {FlatMap(Val(permissions))[i] : i \in DOMAIN FlatMap(Val(permissions))}
    ELSE {}

(* the role's rows are one grant for each of the pairs and nothing else *)
GrantsExactly(role, pairs) ==
    /\ \A g \in pairs :
          Cardinality({i \in DOMAIN role.permissions : role.permissions[i] = g}) = 1
    /\ \A i \in DOMAIN role.permissions : role.permissions[i] \in pairs

NameFree(r, name, self) ==
    ~\E i \in RoleIds : i # self /\ IsSome(r[i]) /\ Val(r[i]).name = name

----------------------------------------------------------------------------
(* C15: RoleService.create(dto) with an unused name creates the role with    *)
(* exactly one permission grant for each (resource, action) pair obtained by *)
(* flattening dto.permissions and no other grant; absent or empty            *)
(* permissions give zero grants.                                             *)
C15_Step ==
    \A p \in Procs :
        Returned(p, "role.create") /\ NameFree(roles, Val(loc'[p].name), 0) =>
            /\ resp'[p].kind = "ok"
            /\ roles' = [roles EXCEPT ![nextRoleId] =
                                 Some(RoleRow(nextRoleId, Val(loc'[p].name)))]
            /\ rolePermissions' = [rolePermissions EXCEPT ![nextRoleId] =
                                       resp'[p].data[1].permissions]
            /\ resp'[p].data[1].name = Val(loc'[p].name)
            /\ GrantsExactly(resp'[p].data[1], PairsOf(loc'[p].permissions))

C15_CreateGrants == [][C15_Step]_vars

----------------------------------------------------------------------------
(* C16: RoleService.update(id, dto) of an existing role with a permissions   *)
(* array is a full replace: afterwards the role's grants are exactly the     *)
(* flattened pairs of the submitted array, one grant each, none of the old   *)
(* grants outside the submitted set remains, an empty array leaves zero      *)
(* grants, and the other roles keep their grants.                            *)
C16_Step ==
    \A p \in Procs :
        (/\ Returned(p, "role.update")
         /\ IsSome(loc'[p].permissions)
         /\ IsSome(roles[loc'[p].id])
         /\ IsSome(loc'[p].name) => NameFree(roles, Val(loc'[p].name), loc'[p].id))
        =>
            /\ resp'[p].kind = "ok"
            /\ IsSome(roles'[loc'[p].id])
            /\ resp'[p].data[1].permissions = rolePermissions'[loc'[p].id]
            /\ resp'[p].data[1].name = Val(roles'[loc'[p].id]).name
            /\ GrantsExactly(resp'[p].data[1], PairsOf(loc'[p].permissions))
            /\ \A i \in RoleIds : i # loc'[p].id =>
                   roles'[i] = roles[i] /\ rolePermissions'[i] = rolePermissions[i]

C16_FullReplace == [][C16_Step]_vars

----------------------------------------------------------------------------
(* C17: in GET and DELETE /files/:identifier a failure of the object store   *)
(* other than "object not found" is never answered with not-found (nor with  *)
(* a normal result), and the absence of any matching object is never         *)
(* answered with an internal error: an error response is given exactly when  *)
(* a call of the store failed, and NotFound when no call failed and no       *)
(* stored name contains the identifier.                                      *)
C17_Step ==
    \A p \in Procs :
        Returned(p, "getFile") \/ Returned(p, "deleteFile") =>
            /\ loc'[p].fault =>
                  resp'[p].kind \in {"InternalServerError", "BackendError"}
            /\ resp'[p].kind \in {"InternalServerError", "BackendError"} =>
                  loc'[p].fault
            /\ ~loc'[p].fault /\ Matching(bucket, loc'[p].identifier) = {} =>
                  resp'[p] = NotFoundException
            /\ resp'[p] = NotFoundException =>
                  Matching(bucket, loc'[p].identifier) = {}

C17_FailureIsNotAbsence == [][C17_Step]_vars

(* the listing of getFileById failed for an identifier that no stored name  *)
(* contains, and GET answered with an internal error                         *)
C17_Witness ==
    /\ Done("r1", "getFile")
    /\ loc["r1"].fault
    /\ bucket # {}
    /\ Matching(bucket, loc["r1"].identifier) = {}
    /\ resp["r1"] = InternalServerErrorException

----------------------------------------------------------------------------
(* Vocabulary of the user properties, continued *)

(* the UserService operations that return user records without being meant  *)
(* to find soft-deleted rows                                                *)
FilteredOps ==
    {"findOne", "findAll", "findByEmail", "update", "updateStatus",
     "validateCredentials"}

ReturningOps ==
    {"create", "findAll", "findOne", "findByEmail", "update", "restore",
     "updateStatus", "validateCredentials"}

----------------------------------------------------------------------------
(* C19: every operation that returns a user record, other than restore and   *)
(* forceDelete (findOne, findAll, findByEmail, update, updateStatus,         *)
(* validateCredentials), returns only users whose deletedAt is null; so      *)
(* validateCredentials returns null for a soft-deleted user even with the    *)
(* correct password.                                                         *)
C19_OnlyLiveReturned ==
    \A p \in Procs :
        pc[p] = "idle" /\ loc[p].op \in FilteredOps /\ resp[p].kind = "ok" =>
            /\ \A k \in DOMAIN resp[p].data : resp[p].data[k].deletedAt = None
            /\ loc[p].op = "validateCredentials" =>
                  \A i \in Ids :
                      IsSoftDeleted(i) /\ Val(users[i]).email = Val(loc[p].email)
                          => resp[p].data = <<>>

----------------------------------------------------------------------------
(* C20: no value returned by a UserService operation (create, findAll,       *)
(* findOne, findByEmail, update, restore, updateStatus, validateCredentials) *)
(* has a password field, in any reachable state.                             *)
C20_NoPasswordReturned ==
    \A p \in Procs :
        loc[p].op \in ReturningOps =>
            /\ \A k \in DOMAIN resp[p].data :
                  "password" \notin DOMAIN resp[p].data[k]
            /\ \A k \in DOMAIN loc[p].rows :
                  "password" \notin DOMAIN loc[p].rows[k]

(* validateCredentials has returned the user for the right password, and     *)
(* the stored row holds the password hash                                    *)
C20_Witness ==
    /\ Done("r1", "validateCredentials")
    /\ Len(resp["r1"].data) = 1
    /\ resp["r1"].data[1].email = Val(loc["r1"].email)
    /\ \E i \in Ids :
          /\ Exists(i)
          /\ Val(users[i]).id = resp["r1"].data[1].id
          /\ Val(users[i]).password = BcryptHash(Val(loc["r1"].password))

----------------------------------------------------------------------------
(* C18: an operation of UserService, RoleService or FilesService that hit a  *)
(* failure of the database or of the object store answers its caller with    *)
(* InternalServerError: never with a normal result and never with the        *)
(* backend's own error; NotFound and Conflict are given only by operations   *)
(* that hit no failure.                                                      *)
C18_FailuresReported ==
    \A p \in Procs :
        pc[p] = "idle" =>
            /\ loc[p].fault => resp[p] = InternalServerErrorException
            /\ resp[p].kind # "BackendError"
            /\ resp[p].kind \in {"NotFound", "Conflict"} => ~loc[p].fault

----------------------------------------------------------------------------
(* C21: when forceDelete(id) removes the row between the existence check and *)
(* the write of a concurrent remove(id), restore(id), update(id) or          *)
(* updateStatus(id), that call fails with NotFound (not with an internal     *)
(* error, not with success) and the row stays absent.                        *)
C21_Step ==
    \A p \in Procs :
        (/\ pc[p] \in {"remove_write", "restore_write", "update_write",
                       "updateStatus_write"}
         /\ pc'[p] = "idle"
         /\ ~ExistsIn(users, loc[p].id))
        =>
            /\ resp'[p] = NotFoundException
            /\ ~ExistsIn(users', loc[p].id)

C21_LoserNotFound == [][C21_Step]_vars

----------------------------------------------------------------------------
(* C22: for concurrent creates with the same email, or a create racing an    *)
(* update to that email, no state holds two rows with the same email, and    *)
(* the call whose write comes second, finding the email held by another row, *)
(* fails with Conflict and writes nothing.                                   *)
C22_Step ==
    /\ \A i, j \in Ids :
          i # j /\ ExistsIn(users', i) /\ ExistsIn(users', j) =>
              RowOf(users', i).email # RowOf(users', j).email
    /\ \A p \in Procs :
          /\ pc[p] = "create_insert" /\ pc'[p] = "idle"
                /\ HeldIn(users, Val(loc[p].email), 0) =>
                    resp'[p] = ConflictException /\ users' = users
          /\ pc[p] = "update_write" /\ pc'[p] = "idle"
                /\ IsSome(loc[p].email) /\ ExistsIn(users, loc[p].id)
                /\ HeldIn(users, Val(loc[p].email), loc[p].id) =>
                    resp'[p] = ConflictException /\ users' = users

C22_LoserConflict == [][C22_Step]_vars

----------------------------------------------------------------------------
(* C23: when an object is deleted by another request while GET               *)
(* /files/:identifier is resolving it (between the exact-name check and the  *)
(* metadata fetch, or between the listing and the stat call of getFileById), *)
(* GET ends with the metadata of an object or with NotFound, never with an   *)
(* internal storage error.                                                   *)
C23_Step ==
    \A p \in Procs :
        Returned(p, "getFile") => resp'[p].kind \in {"ok", "NotFound"}

C23_TransientMiss == [][C23_Step]_vars

----------------------------------------------------------------------------
(* the submitted array flattens to a repeated (resource, action) pair *)
RepeatsPair(permissions) ==
    /\ IsSome(permissions)
    /\ Len(FlatMap(Val(permissions))) # Cardinality(PairsOf(permissions))

(* the rows of role i as a set of (resource, action) pairs *)
GrantsOf(table, i) == {table[i][k] : k \in DOMAIN table[i]}

(* C24: in every state reachable through RoleService.create and             *)
(* RoleService.update no two grants share the same (roleId, resource,       *)
(* action); a create or update whose permissions flatten to a repeated      *)
(* pair stores no duplicate grant and leaves no partially written grant     *)
(* set: both tables stay as they were.                                      *)
C24_NoDuplicateGrants ==
    \A i \in RoleIds : \A j, k \in DOMAIN rolePermissions[i] :
        j # k => rolePermissions[i][j] # rolePermissions[i][k]

C24_Step ==
    \A p \in Procs :
        (/\ Returned(p, "role.create") \/ Returned(p, "role.update")
         /\ RepeatsPair(loc'[p].permissions))
        => roles' = roles /\ rolePermissions' = rolePermissions

C24_UniqueGrants == []C24_NoDuplicateGrants /\ [][C24_Step]_vars

C24_Witness ==
    /\ Done("r1", "role.update")
    /\ RepeatsPair(loc["r1"].permissions)
    /\ resp["r1"] = BackendError
    /\ IsSome(roles[loc["r1"].id])
    /\ Len(rolePermissions[loc["r1"].id]) = 2

----------------------------------------------------------------------------
(* C25: in every reachable state each permission grant references an        *)
(* existing role.  RoleService.delete(id) removes the role together with    *)
(* all of its grants and no grant of another role, and a grant appears only *)
(* in the step of a role create or update.                                  *)
C25_NoOrphanGrant ==
    \A i \in RoleIds : rolePermissions[i] # <<>> => IsSome(roles[i])

C25_Step ==
    /\ \A p \in Procs :
          Returned(p, "role.delete") /\ resp'[p].kind = "ok" =>
              /\ roles'[loc'[p].id] = None
              /\ rolePermissions'[loc'[p].id] = <<>>
              /\ \A i \in RoleIds : i # loc'[p].id =>
                     roles'[i] = roles[i] /\ rolePermissions'[i] = rolePermissions[i]
    /\ \A i \in RoleIds :
          ~(GrantsOf(rolePermissions', i) \subseteq GrantsOf(rolePermissions, i)) =>
              \E p \in Procs :
                  /\ Returned(p, "role.create") \/ Returned(p, "role.update")
                  /\ resp'[p].kind = "ok"
                  /\ resp'[p].data[1].id = i

C25_GrantsBelongToRoles == []C25_NoOrphanGrant /\ [][C25_Step]_vars

C25_Witness ==
    /\ Done("r1", "role.delete")
    /\ resp["r1"].kind = "ok"
    /\ resp["r1"].data[1].permissions # <<>>
    /\ roles[loc["r1"].id] = None
    /\ \E i \in RoleIds : rolePermissions[i] # <<>>

----------------------------------------------------------------------------
(* C30: RoleService.update(id, dto) whose dto has no permissions field      *)
(* changes only the role's name (when a name is given) and leaves the       *)
(* role's grants exactly as they were; an update removes grants only when   *)
(* a permissions array is submitted.                                        *)
C30_Step ==
    \A p \in Procs :
        Returned(p, "role.update") =>
            /\ ~IsSome(loc'[p].permissions) =>
                  /\ rolePermissions' = rolePermissions
                  /\ \A i \in RoleIds : i # loc'[p].id => roles'[i] = roles[i]
                  /\ resp'[p].kind = "ok" =>
                        /\ roles'[loc'[p].id] =
                              Some(RoleRow(loc'[p].id,
                                           IF IsSome(loc'[p].name)
                                           THEN Val(loc'[p].name)
                                           ELSE Val(roles[loc'[p].id]).name))
                        /\ resp'[p].data[1].permissions = rolePermissions[loc'[p].id]
                  /\ resp'[p].kind # "ok" => roles' = roles
            /\ (\E i \in RoleIds :
                   ~(GrantsOf(rolePermissions, i) \subseteq GrantsOf(rolePermissions', i)))
                  => IsSome(loc'[p].permissions)

C30_NameOnlyUpdate == [][C30_Step]_vars

C30_Witness ==
    /\ Done("r1", "role.update")
    /\ ~IsSome(loc["r1"].permissions)
    /\ IsSome(loc["r1"].name)
    /\ resp["r1"].kind = "ok"
    /\ Len(resp["r1"].data[1].permissions) = 2
    /\ Val(roles[loc["r1"].id]).name = Val(loc["r1"].name)
    /\ rolePermissions[loc["r1"].id] = resp["r1"].data[1].permissions

----------------------------------------------------------------------------
(* the page and the page size a list request asks for *)
AskedPage(a) == IF a.page = JsUndef THEN 1 ELSE a.page.v
AskedTake(a) == IF a.limit = JsUndef THEN 10 ELSE a.limit.v

(* C26: the pagination descriptor uses page = 1 when no page is given and   *)
(* take = 10 when no limit is given, and its skip is (page - 1) * take;     *)
(* UserService.findAll hands exactly this skip and take to findMany, so the *)
(* rows are that window of the listing, and reports the same page and limit *)
(* in meta.                                                                 *)
C26_Step ==
    \A p \in Procs :
        /\ Called(p, "findAll") /\ pc'[p] = "findAll_count" =>
              LET a == loc'[p]
              IN  /\ a.take = AskedTake(a)
                  /\ a.skip = (AskedPage(a) - 1) * a.take
                  /\ \E s \in Listings(FindAllWhere(a.q),
                                       buildOrderBy(a.sortBy, a.sortOrder)) :
                        /\ Len(a.rows) = Len(Slice(s, a.skip, a.take))
                        /\ \A i \in DOMAIN a.rows :
                              /\ a.skip + i <= Len(s)
                              /\ i <= a.take
                              /\ a.rows[i] = excludePassword(Val(users[s[a.skip + i]]))
        /\ Returned(p, "findAll") /\ resp'[p].kind = "ok" =>
              /\ resp'[p].meta.page = AskedPage(loc'[p])
              /\ resp'[p].meta.limit = AskedTake(loc'[p])
              /\ loc'[p].skip = (resp'[p].meta.page - 1) * resp'[p].meta.limit
              /\ loc'[p].take = resp'[p].meta.limit
              /\ resp'[p].data = loc'[p].rows

C26_SkipAndTake == [][C26_Step]_vars

C26_Witness ==
    /\ Done("r1", "findAll")
    /\ resp["r1"].kind = "ok"
    /\ loc["r1"].page = JsNum(2)
    /\ loc["r1"].limit = JsNum(1)
    /\ loc["r1"].skip = 1
    /\ Len(resp["r1"].data) = 1
    /\ resp["r1"].meta.page = 2
    /\ resp["r1"].meta.total = 2

----------------------------------------------------------------------------
(* C27: the object name generated on upload is timestamp-uuid-sanitizedName, *)
(* where sanitizedName is as long as the original file name and holds at    *)
(* every position the original character if it is in [A-Za-z0-9.-] and '_'  *)
(* otherwise; sanitizing the sanitized name again changes nothing.          *)
C27_Step ==
    \A p \in Procs :
        Returned(p, "uploadFile") /\ resp'[p].kind = "ok" =>
            LET original == Val(loc'[p].file).originalname
                objectName == resp'[p].data[1].objectName
                sanitizedName == SubSeq(objectName, 5, Len(objectName))
            IN  /\ Len(objectName) = 4 + Len(original)
                /\ objectName[1] = DateNow
                /\ objectName[2] = "-"
                /\ objectName[3] \in Uuids
                /\ objectName[4] = "-"
                /\ \A i \in DOMAIN original :
                      sanitizedName[i] = IF original[i] \in SafeChars
                                         THEN original[i] ELSE "_"
                /\ Sanitize(sanitizedName) = sanitizedName
                /\ objectName \in {o.name : o \in bucket'}

C27_ObjectNameForm == [][C27_Step]_vars

C27_Witness ==
    /\ Done("r1", "uploadFile")
    /\ resp["r1"].kind = "ok"
    /\ Val(loc["r1"].file).originalname = <<".", "_", " ">>
    /\ SubSeq(resp["r1"].data[1].objectName, 5, 7) = <<".", "_", "_">>

----------------------------------------------------------------------------
(* the object the resolver selects for the identifier: the object of that   *)
(* name if it is stored, otherwise the first listed object whose name       *)
(* contains the identifier                                                  *)
Selected(objs, identifier) ==
    IF \E o \in objs : o.name = identifier
    THEN {o \in objs : o.name = identifier}
    ELSE {o \in objs : FirstListed(objs, identifier, o)}

(* C28: DELETE /files/:identifier removes at most one object, the one the   *)
(* resolver selects, and leaves every other object in the bucket as it was; *)
(* when the identifier resolves to no object it fails with NotFound and     *)
(* removes nothing.                                                         *)
C28_Step ==
    \A p \in Procs :
        /\ loc'[p].op = "deleteFile" /\ Moves(p) /\ pc'[p] # "idle" => bucket' = bucket
        /\ Returned(p, "deleteFile") =>
              LET identifier == loc'[p].identifier
              IN  /\ Cardinality(Selected(bucket, identifier)) <= 1
                  /\ Selected(bucket, identifier) # {} =>
                        /\ resp'[p].kind = "ok"
                        /\ bucket' = bucket \ Selected(bucket, identifier)
                  /\ Selected(bucket, identifier) = {} =>
                        /\ resp'[p] = NotFoundException
                        /\ bucket' = bucket
                        /\ Matching(bucket, identifier) = {}

C28_DeletesOnlySelected == [][C28_Step]_vars

C28_Witness ==
    /\ Done("r1", "deleteFile")
    /\ resp["r1"].kind = "ok"
    /\ loc["r1"].identifier = <<"-", "f">>
    /\ loc["r1"].match \notin ObjectNames
    /\ Cardinality(Matching(bucket, <<"-", "f">>)) = 1

----------------------------------------------------------------------------
(* the retry budget of the request being served *)
Budget == IF IsSome(http.asked) THEN Val(http.asked) ELSE 3

Retryable(outcome) ==
    ~outcome.response \/ (outcome.status >= 500 /\ outcome.status <= 599)

(* C29: a request through HttpClientService is retried only when the failed *)
(* attempt got no response or a 5xx status, never on a 4xx; it is attempted *)
(* at most 1 + retries times, where retries is 3 unless the request gives   *)
(* its own value; and it always ends: an attempt succeeds and its data is   *)
(* returned, or the request is rejected with the formatted error once the   *)
(* retry count is 0 or the error is not retryable.                          *)
C29_Attempts == http.attempts <= 1 + Budget

C29_Step ==
    /\ http.pc = "sent" /\ http'.pc = "sleep" =>
          /\ Retryable(http'.last)
          /\ ~(http'.last.response /\ http'.last.status \in 400 .. 499)
          /\ http'.attempts <= Budget
    /\ http.pc = "sent" /\ http'.pc = "idle" =>
          \/ /\ http'.result.kind = "data"
             /\ http'.last.response /\ http'.last.status \in 200 .. 299
             /\ http'.result.status = Some(http'.last.status)
          \/ /\ http'.result.kind = "rejected"
             /\ ~(http'.last.response /\ http'.last.status \in 200 .. 299)
             /\ http'.attempts = 1 + Budget \/ ~Retryable(http'.last)
             /\ http'.result.status =
                   IF http'.last.response THEN Some(http'.last.status) ELSE None

C29_BoundedRetry ==
    /\ []C29_Attempts
    /\ [][C29_Step]_vars
    /\ (http.pc # "idle") ~> (http.pc = "idle")

C29_Witness ==
    /\ http.pc = "idle"
    /\ http.asked = None
    /\ http.attempts = 4
    /\ http.result = [kind |-> "rejected", status |-> Some(503)]

====
